---- MODULE Spec2Model ----
(***************************************************************************)
(* Model of the Intel 8080 core of rust-8080 (src/src/i8080.rs) and of the *)
(* Space Invaders machine that drives it (src/src/machine.rs), with the    *)
(* IO shim of src/src/invaders.rs beside the one of machine.rs and the     *)
(* stand-alone emulator of src/src/main.rs.                                *)
(*                                                                         *)
(* The CPU is a record `cpu` with the fields of State8080.  The 16 KiB     *)
(* memory array is kept sparsely: a function from the addresses that hold  *)
(* a non-zero byte to that byte; every other cell of the array reads 0.    *)
(* A register pair is the 16-bit field `both` of the RegisterPair union;   *)
(* lsb/msb are its two bytes as the union lays them out on a little-endian *)
(* host.                                                                   *)
(*                                                                         *)
(* Machine::step is a loop around State8080::emulate.  The loop is modelled*)
(* with a position (`pos`): StepBegin computes the budget, Emulate runs    *)
(* one iteration, StepEnd stores the debt.  While pos = "stepping" nothing *)
(* else can run, as in the single-threaded program.                        *)
(*                                                                         *)
(* A panic or process::exit ends the process: `status` leaves "Running"    *)
(* and no action is enabled afterwards.                                    *)
(***************************************************************************)
EXTENDS Integers, Naturals, Sequences, FiniteSets, TLC

\* ------------------------------------------------------------------------
\* Program constants
\* ------------------------------------------------------------------------
MEMORY_SIZE == 16384

ROM_END == 8192

FREQ == 2000000

U8 == 256

U16 == 65536

\* ------------------------------------------------------------------------
\* Bit arithmetic on bytes and words
\* ------------------------------------------------------------------------
Pow2(n) == 2 ^ n

Bit(x, i) == (x \div Pow2(i)) % 2

BitAnd(x, y) ==
    LET f[i \in 0..16] ==
            IF i = 16 THEN 0
            ELSE Bit(x, i) * Bit(y, i) * Pow2(i) + f[i + 1]
    IN  f[0]

BitOr(x, y) ==
    LET f[i \in 0..16] ==
            IF i = 16 THEN 0
            ELSE (IF Bit(x, i) + Bit(y, i) > 0 THEN Pow2(i) ELSE 0) + f[i + 1]
    IN  f[0]

BitXor(x, y) ==
    LET f[i \in 0..16] ==
            IF i = 16 THEN 0
            ELSE ((Bit(x, i) + Bit(y, i)) % 2) * Pow2(i) + f[i + 1]
    IN  f[0]

BitNot8(x) == 255 - x

\* number of 1 bits of a byte (used by the properties only)
PopCount(x) ==
    Bit(x, 0) + Bit(x, 1) + Bit(x, 2) + Bit(x, 3)
  + Bit(x, 4) + Bit(x, 5) + Bit(x, 6) + Bit(x, 7)

\* `x as u8`, `x as u16`
AsU8(x) == x % U8

AsU16(x) == x % U16

\* ------------------------------------------------------------------------
\* RegisterPair (union of a u16 and two u8)
\* ------------------------------------------------------------------------
lsb(both) == both % 256

msb(both) == both \div 256

lsb_mut(both, v) == msb(both) * 256 + v

\* msb_mut with the slip of writing the whole pair
msb_mut_whole_pair(both, v) == v * 256

msb_mut(both, v) == v * 256 + lsb(both)

\* ------------------------------------------------------------------------
\* Flags
\* ------------------------------------------------------------------------
FlagsZero ==
    [zero |-> FALSE, sign_negative |-> FALSE, even_parity |-> FALSE,
     carry |-> FALSE, aux_carry |-> FALSE]

psw(f) ==
    (IF f.carry THEN 1 ELSE 0)
  + (IF f.even_parity THEN 4 ELSE 0)
  + (IF f.aux_carry THEN 16 ELSE 0)
  + (IF f.zero THEN 64 ELSE 0)
  + (IF f.sign_negative THEN 128 ELSE 0)

\* set_psw with the slip of reading the parity from bit 1
set_psw_parity_bit1(byte) ==
    [carry         |-> Bit(byte, 0) = 1,
     even_parity   |-> Bit(byte, 1) = 1,
     aux_carry     |-> Bit(byte, 4) = 1,
     zero          |-> Bit(byte, 6) = 1,
     sign_negative |-> Bit(byte, 7) = 1]

\* Flags::set_psw
set_psw(byte) ==
    [carry         |-> Bit(byte, 0) = 1,
     even_parity   |-> Bit(byte, 2) = 1,
     aux_carry     |-> Bit(byte, 4) = 1,
     zero          |-> Bit(byte, 6) = 1,
     sign_negative |-> Bit(byte, 7) = 1]

\* ------------------------------------------------------------------------
\* Memory
\* ------------------------------------------------------------------------
\* memory[address] for an index inside the array
Mem(memory, address) ==
    IF address \in DOMAIN memory THEN memory[address] ELSE 0

\* memory[address] = value for an index inside the array
MemSet(memory, address, value) ==
    IF value = 0
    THEN [x \in (DOMAIN memory) \ {address} |-> memory[x]]
    ELSE [x \in (DOMAIN memory) \cup {address} |->
            IF x = address THEN value ELSE memory[x]]

\* the array index `memory[i]` panics when i is outside the array
InBounds(address) == address >= 0 /\ address < MEMORY_SIZE

\* `memory[..rom.len()].clone_from_slice(rom)`: [memory, trap].  The range
\* ends past the array for an image longer than MEMORY_SIZE and the slicing
\* panics before a byte is copied
LoadRom(image) ==
    IF Len(image) > MEMORY_SIZE
    THEN [memory |-> << >>, trap |-> "OutOfBounds"]
    ELSE LET nz == {i \in 1..Len(image) : image[i] # 0}
         IN  [memory |-> [x \in {i - 1 : i \in nz} |-> image[x + 1]],
              trap |-> "none"]

\* State8080::new: [s, trap]; with a trap no State8080 is made and s is the
\* zeroed state the copy was to fill
new(image) ==
    LET loaded == LoadRom(image)
    IN  [s |-> [a |-> 0, bc |-> 0, de |-> 0, hl |-> 0, sp |-> 0, pc |-> 0,
                memory |-> loaded.memory,
                flags |-> FlagsZero,
                interrupts_enabled |-> FALSE,
                cycle_debt |-> 0],
         trap |-> loaded.trap]

af(s) == msb_mut(0, s.a) + psw(s.flags)

set_af(s, value) ==
    [s EXCEPT !.flags = set_psw(AsU8(value)), !.a = value \div 256]

b(s) == msb(s.bc)

c(s) == lsb(s.bc)

d(s) == msb(s.de)

e(s) == lsb(s.de)

h(s) == msb(s.hl)

l(s) == lsb(s.hl)

\* read_byte: the value, valid when InBounds(address)
read_byte(s, address) == Mem(s.memory, address)

\* m(): the byte at (HL)
m(s) == read_byte(s, s.hl)

\* ------------------------------------------------------------------------
\* Results of operations that can end the process
\* ------------------------------------------------------------------------
\* trap = "none"         the operation completed
\*        "RomWrite"     panic!("Writing to ROM at ...") in write_byte
\*        "OutOfBounds"  index out of bounds panic on self.memory[...]
\*        "Overflow"     arithmetic overflow panic (overflow checks on)
\*        "Halt"         process::exit on HLT
\*        "Unimplemented" process::exit on an opcode without an arm
\*        "BadPort"      panic in IOState::input
Ok(s) == [s |-> s, trap |-> "none"]

Fail(s, kind) == [s |-> s, trap |-> kind]

\* read_bytes: reads address + 1 first, then address
\* oc: the build has overflow checks (debug profile)
read_bytes_trap(address, oc) ==
    IF address + 1 >= U16 /\ oc THEN "Overflow"
    ELSE IF ~InBounds(AsU16(address + 1)) THEN "OutOfBounds"
    ELSE IF ~InBounds(address) THEN "OutOfBounds"
    ELSE "none"

read_bytes(s, address) ==
    read_byte(s, AsU16(address + 1)) * 256 + read_byte(s, address)

\* read_byte_immediate / read_bytes_immediate (pc is inside the array
\* when they are called, so pc + 1 cannot overflow)
read_byte_immediate_trap(s) ==
    IF InBounds(s.pc + 1) THEN "none" ELSE "OutOfBounds"

read_byte_immediate(s) == read_byte(s, s.pc + 1)

read_bytes_immediate_trap(s, oc) == read_bytes_trap(s.pc + 1, oc)

read_bytes_immediate(s) == read_bytes(s, s.pc + 1)

write_byte(s, address, value) ==
    IF address < ROM_END THEN Fail(s, "RomWrite")
    ELSE IF ~InBounds(address) THEN Fail(s, "OutOfBounds")
    ELSE Ok([s EXCEPT !.memory = MemSet(@, address, value)])

write_bytes(s, address, value, oc) ==
    LET first == write_byte(s, address, AsU8(value))
    IN  IF first.trap # "none" THEN first
        ELSE IF address + 1 >= U16 /\ oc THEN Fail(first.s, "Overflow")
        ELSE write_byte(first.s, AsU16(address + 1), value \div 256)

\* m_mut: &mut self.memory[self.hl() as usize], no ROM check
m_mut(s, value) ==
    IF ~InBounds(s.hl) THEN Fail(s, "OutOfBounds")
    ELSE Ok([s EXCEPT !.memory = MemSet(@, s.hl, value)])

\* push with the slip of storing the high byte first
push_high_first(s, value, oc) ==
    IF s.sp < 2 /\ oc THEN Fail(s, "Overflow")
    ELSE LET w == write_bytes(s, AsU16(s.sp - 2 + U16),
                              lsb(value) * 256 + msb(value), oc)
         IN  IF w.trap # "none" THEN w
             ELSE Ok([w.s EXCEPT !.sp = AsU16(s.sp - 2 + U16)])

\* State8080::push: [s, trap]
push(s, value, oc) ==
    IF s.sp < 2 /\ oc THEN Fail(s, "Overflow")
    ELSE LET w == write_bytes(s, AsU16(s.sp - 2 + U16), value, oc)
         IN  IF w.trap # "none" THEN w
             ELSE Ok([w.s EXCEPT !.sp = AsU16(s.sp - 2 + U16)])

\* pop: [s, trap, value]
pop(s, oc) ==
    LET t == read_bytes_trap(s.sp, oc)
    IN  IF t # "none" THEN [s |-> s, trap |-> t, value |-> 0]
        ELSE IF s.sp + 2 >= U16 /\ oc
             THEN [s |-> s, trap |-> "Overflow", value |-> 0]
        ELSE [s |-> [s EXCEPT !.sp = AsU16(s.sp + 2)], trap |-> "none",
              value |-> read_bytes(s, s.sp)]

\* jmp with the slip of reading the address high byte first
jmp_high_first(s, oc) ==
    LET t == read_bytes_immediate_trap(s, oc)
    IN  IF t # "none" THEN Fail(s, t)
        ELSE Ok([s EXCEPT !.pc = lsb(read_bytes_immediate(s)) * 256
                                + msb(read_bytes_immediate(s))])

\* State8080::jmp: [s, trap]
jmp(s, oc) ==
    LET t == read_bytes_immediate_trap(s, oc)
    IN  IF t # "none" THEN Fail(s, t)
        ELSE Ok([s EXCEPT !.pc = read_bytes_immediate(s)])

call(s, oc) ==
    LET p == push(s, s.pc + 3, oc)
    IN  IF p.trap # "none" THEN p
        ELSE LET t == read_bytes_immediate_trap(p.s, oc)
             IN  IF t # "none" THEN Fail(p.s, t)
                 ELSE Ok([p.s EXCEPT !.pc = read_bytes_immediate(p.s)])

ret(s, oc) ==
    LET p == pop(s, oc)
    IN  IF p.trap # "none" THEN Fail(p.s, p.trap)
        ELSE Ok([p.s EXCEPT !.pc = p.value])

\* ------------------------------------------------------------------------
\* Flag computation
\* ------------------------------------------------------------------------
\* parity: xor of the bits of x, then `parity != 0`
parity(x) ==
    LET loop[i \in 0..8] ==
            \* parity accumulated over bits i..7 of x
            IF i = 8 THEN 0 ELSE (Bit(x, i) + loop[i + 1]) % 2
    IN  loop[0] # 0

set_flags(s, value) ==
    [s EXCEPT !.flags = [@ EXCEPT !.zero = (value = 0),
                                  !.sign_negative = (Bit(value, 7) # 0),
                                  !.carry = FALSE,
                                  !.even_parity = parity(value)]]

\* u16::trailing_zeros: 16 for 0
trailing_zeros(x) ==
    IF x = 0 THEN 16
    ELSE CHOOSE n \in 0..15 : Bit(x, n) = 1 /\ \A k \in 0..(n - 1) : Bit(x, k) = 0

\* add with the slip of taking the carry from the truncated result
add_carry_of_byte(s, operand) ==
    LET result == s.a + operand
    IN  [s EXCEPT !.flags = [@ EXCEPT !.zero = (trailing_zeros(result) >= 8),
                                      !.sign_negative = (Bit(result, 7) # 0),
                                      !.carry = (AsU8(result) > 255),
                                      !.even_parity = parity(AsU8(result))],
                  !.a = AsU8(result)]

add(s, operand) ==
    LET result == s.a + operand
    IN  [s EXCEPT !.flags = [@ EXCEPT !.zero = (trailing_zeros(result) >= 8),
                                      !.sign_negative = (Bit(result, 7) # 0),
                                      !.carry = (result > 255),
                                      !.even_parity = parity(AsU8(result))],
                  !.a = AsU8(result)]

dad(s, operand) ==
    LET result == s.hl + operand
    IN  [s EXCEPT !.flags = [@ EXCEPT !.carry = (result > 65535)],
                  !.hl = AsU16(result)]

\* and / or / xor share their flag code
logic_flags(s, result) ==
    [s EXCEPT !.flags = [@ EXCEPT !.zero = (result = 0),
                                  !.sign_negative = (Bit(result, 7) # 0),
                                  !.carry = FALSE,
                                  !.even_parity = parity(result)],
              !.a = result]

and(s, operand) == logic_flags(s, BitAnd(s.a, operand))

or(s, operand) == logic_flags(s, BitOr(s.a, operand))

xor(s, operand) == logic_flags(s, BitXor(s.a, operand))

\* cmp with the slip of a carry for A above the operand
cmp_carry_when_above(s, operand) ==
    LET result == AsU8(s.a - operand + U8)
    IN  [s EXCEPT !.flags = [@ EXCEPT !.zero = (result = 0),
                                      !.sign_negative = (Bit(result, 7) # 0),
                                      !.carry = (s.a > operand),
                                      !.even_parity = parity(result)]]

cmp(s, operand) ==
    LET result == AsU8(s.a - operand + U8)
    IN  [s EXCEPT !.flags = [@ EXCEPT !.zero = (result = 0),
                                      !.sign_negative = (Bit(result, 7) # 0),
                                      !.carry = (s.a < operand),
                                      !.even_parity = parity(result)]]

\* ------------------------------------------------------------------------
\* SpaceInvadersIO (machine.rs)
\* ------------------------------------------------------------------------
SpaceInvadersIO_new ==
    [shift_register |-> 0, shift_amount |-> 0, port1 |-> 144, port2 |-> 32]

\* input with the slip of shifting right by shift_amount
input_shift_by_amount(io, port) ==
    CASE port = 1 -> [value |-> io.port1, trap |-> "none"]
      [] port = 2 -> [value |-> io.port2, trap |-> "none"]
      [] port = 3 ->
            [value |-> AsU8(io.shift_register \div Pow2(io.shift_amount)),
             trap |-> "none"]
      [] OTHER -> [value |-> 0, trap |-> "BadPort"]

\* IOState::input: [value, trap]
input(io, port) ==
    CASE port = 1 -> [value |-> io.port1, trap |-> "none"]
      [] port = 2 -> [value |-> io.port2, trap |-> "none"]
      [] port = 3 ->
            [value |-> AsU8(io.shift_register \div Pow2(8 - io.shift_amount)),
             trap |-> "none"]
      [] OTHER -> [value |-> 0, trap |-> "BadPort"]

\* output with the slip of keeping four bits of the shift amount
output_four_bits(io, port, value) ==
    CASE port = 2 -> [io EXCEPT !.shift_amount = BitAnd(value, 15)]
      [] port = 4 ->
            [io EXCEPT !.shift_register =
                msb_mut(lsb_mut(@, msb(@)), value)]
      [] OTHER -> io

\* output with the slip of keeping the low byte on a write to port 4
output_keeps_low(io, port, value) ==
    CASE port = 2 -> [io EXCEPT !.shift_amount = BitAnd(value, 7)]
      [] port = 4 -> [io EXCEPT !.shift_register = msb_mut(@, value)]
      [] OTHER -> io

\* IOState::output
output(io, port, value) ==
    CASE port = 2 -> [io EXCEPT !.shift_amount = BitAnd(value, 7)]
      [] port = 4 ->
            [io EXCEPT !.shift_register =
                msb_mut(lsb_mut(@, msb(@)), value)]
      [] OTHER -> io

\* the keys key_press reacts to, and the port1 bit each drives
Keys == {"C", "Return", "Space", "Left", "Right"}

KeyBit(key) ==
    CASE key = "C" -> 0
      [] key = "Return" -> 2
      [] key = "Space" -> 4
      [] key = "Left" -> 5
      [] key = "Right" -> 6

\* set_key: press sets the bit, release clears it
set_key(port, bit, press) ==
    IF press
    THEN BitOr(port, Pow2(bit))
    ELSE BitAnd(port, BitNot8(Pow2(bit)))

\* key_press for a keyboard button; any other key leaves the ports alone
key_press(io, key, press) ==
    IF key \in Keys
    THEN [io EXCEPT !.port1 = set_key(@, KeyBit(key), press)]
    ELSE io

\* ------------------------------------------------------------------------
\* SpaceInvadersIO (invaders.rs)
\* ------------------------------------------------------------------------
invaders_new ==
    [shift_register |-> 0, shift_amount |-> 0, port0 |-> 112, port1 |-> 16,
     port2 |-> 0]

\* IOState::input: [value, trap]
invaders_input(io, port) ==
    CASE port = 1 -> [value |-> io.port1, trap |-> "none"]
      [] port = 2 -> [value |-> io.port2, trap |-> "none"]
      [] port = 3 ->
            [value |-> AsU8(io.shift_register \div Pow2(8 - io.shift_amount)),
             trap |-> "none"]
      [] OTHER -> [value |-> 0, trap |-> "BadPort"]

\* IOState::output: [io, trap]
invaders_output(io, port, value) ==
    CASE port = 2 ->
            [io |-> [io EXCEPT !.shift_amount = BitAnd(value, 7)],
             trap |-> "none"]
      [] port = 4 ->
            [io |-> [io EXCEPT !.shift_register =
                        msb_mut(lsb_mut(@, msb(@)), value)],
             trap |-> "none"]
      [] port \in {3, 5, 6} -> [io |-> io, trap |-> "none"]
      [] OTHER -> [io |-> io, trap |-> "BadPort"]

\* set_key: on sets the bit, off clears it
invaders_set_key(port, bit, on) ==
    IF on
    THEN BitOr(port, Pow2(bit))
    ELSE BitAnd(port, BitNot8(Pow2(bit)))

\* the host keys update_input asks the window about
WindowKeys ==
    {"C", "W", "Q", "Space", "A", "D", "Enter", "Left", "Right"}

\* update_input with the slip of exchanging the two start buttons
update_input_starts_swapped(io, down) ==
    LET k(port, bit, key) == invaders_set_key(port, bit, key \in down)
        p1 == k(k(k(invaders_set_key(k(k(k(io.port1, 0, "C"), 1, "Q"),
                                       2, "W"), 3, TRUE),
                    4, "Space"), 5, "A"), 6, "D")
        p2 == k(k(k(io.port2, 4, "Enter"), 5, "Left"), 6, "Right")
    IN  [io EXCEPT !.port1 = p1, !.port2 = p2]

\* update_input: down is the set of keys for which window.is_key_down holds
update_input(io, down) ==
    LET k(port, bit, key) == invaders_set_key(port, bit, key \in down)
        p1 == k(k(k(invaders_set_key(k(k(k(io.port1, 0, "C"), 1, "W"),
                                       2, "Q"), 3, TRUE),
                    4, "Space"), 5, "A"), 6, "D")
        p2 == k(k(k(io.port2, 4, "Enter"), 5, "Left"), 6, "Right")
    IN  [io EXCEPT !.port1 = p1, !.port2 = p2]

\* ------------------------------------------------------------------------
\* The IOState the CPU is given: either of the two shims
\* ------------------------------------------------------------------------
\* the shim of invaders.rs is the one that has a port0
IsInvaders(io) == "port0" \in DOMAIN io

\* io_state.input(port): [value, trap]
io_state_input(io, port) ==
    IF IsInvaders(io) THEN invaders_input(io, port) ELSE input(io, port)

\* io_state.output(port, value): [io, trap]
io_state_output(io, port, value) ==
    IF IsInvaders(io)
    THEN invaders_output(io, port, value)
    ELSE [io |-> output(io, port, value), trap |-> "none"]

\* ------------------------------------------------------------------------
\* Video decoder: Machine::screen of machine.rs, SpaceInvaders::screen of
\* invaders.rs
\* ------------------------------------------------------------------------
VRAM_START == 9216

SCREEN_WIDTH == 224

SCREEN_HEIGHT == 256

\* the bytes of one half of the screen, and where the second half starts in
\* memory and in the pixel sequence
HALF_BYTES == 3584

BOTTOM_MEMORY == 12800

BOTTOM_PIXEL == 28672

CYCLES_PER_FRAME == 4000000 \div 60

\* put_bit with the slip of walking a column from the top to the bottom
put_bit_downwards(v, byte, bit) ==
    LET pixel_on == BitAnd(byte, Pow2(bit)) # 0
        at == <<v.x, SCREEN_HEIGHT - 1 - v.y>>
    IN  [v EXCEPT !.on = IF pixel_on THEN @ \cup {at} ELSE @ \ {at},
                  !.y = IF v.y > 0 THEN v.y - 1 ELSE SCREEN_HEIGHT - 1,
                  !.x = IF v.y > 0 THEN v.x ELSE v.x + 1]

\* machine.rs, one iteration of `for bit in 0..8`: the pixel (x, y) is put,
\* then y walks up the column and x moves on when the column is full
put_bit(v, byte, bit) ==
    LET pixel_on == BitAnd(byte, Pow2(bit)) # 0
        at == <<v.x, v.y>>
    IN  [v EXCEPT !.on = IF pixel_on THEN @ \cup {at} ELSE @ \ {at},
                  !.y = IF v.y > 0 THEN v.y - 1 ELSE SCREEN_HEIGHT - 1,
                  !.x = IF v.y > 0 THEN v.x ELSE v.x + 1]

\* put_pixel panics outside the image
put_bit_trap(v) ==
    IF v.x < SCREEN_WIDTH /\ v.y < SCREEN_HEIGHT THEN "none"
    ELSE "OutOfBounds"

\* machine.rs, the loop `for bit in 0..8` from `bit` on: [v, trap]
RECURSIVE screen_bits(_, _, _)
screen_bits(v, byte, bit) ==
    IF bit = 8 THEN [v |-> v, trap |-> "none"]
    ELSE IF put_bit_trap(v) # "none"
    THEN [v |-> v, trap |-> put_bit_trap(v)]
    ELSE screen_bits(put_bit(v, byte, bit), byte, bit + 1)

\* machine.rs, one iteration of `for &byte in &memory[0x2400..0x4000]`
screen_byte(v, memory) ==
    LET r == screen_bits(v, Mem(memory, VRAM_START + v.index), 0)
    IN  [r EXCEPT !.v.index = v.index + 1]

\* window_bit with the slip of starting both halves at pixel 0
window_bit_same_half(v, top_half, byte, bit) ==
    LET x == (8 * v.index + bit) \div SCREEN_HEIGHT
        y == SCREEN_HEIGHT - 1 - ((8 * v.index + bit) % SCREEN_HEIGHT)
        at == x + y * SCREEN_WIDTH
    IN  [v EXCEPT !.on = IF BitAnd(byte, Pow2(bit)) = 0
                         THEN @ \ {at} ELSE @ \cup {at}]

\* invaders.rs, one iteration of `for bit in 0..8`: window_buffer[x + y *
\* SCREEN_WIDTH] = color; on holds the indices whose color is 0xffffffff
window_bit(v, top_half, byte, bit) ==
    LET start_pixel == IF top_half THEN 0 ELSE BOTTOM_PIXEL
        x == (start_pixel + 8 * v.index + bit) \div SCREEN_HEIGHT
        y == SCREEN_HEIGHT - 1
             - ((start_pixel + 8 * v.index + bit) % SCREEN_HEIGHT)
        at == x + y * SCREEN_WIDTH
    IN  [v EXCEPT !.on = IF BitAnd(byte, Pow2(bit)) = 0
                         THEN @ \ {at} ELSE @ \cup {at}]

\* invaders.rs, the loop `for bit in 0..8` from `bit` on
RECURSIVE window_bits(_, _, _, _)
window_bits(v, top_half, byte, bit) ==
    IF bit = 8 THEN v
    ELSE window_bits(window_bit(v, top_half, byte, bit), top_half, byte,
                     bit + 1)

\* invaders.rs, one iteration of `for offset in 0..0xE00`
window_byte(v, top_half, memory) ==
    LET start_memory == IF top_half THEN VRAM_START ELSE BOTTOM_MEMORY
        r == window_bits(v, top_half, Mem(memory, start_memory + v.index), 0)
    IN  [r EXCEPT !.index = v.index + 1]

\* half_step with the slip of raising the end-of-frame interrupt first
half_interrupt_swapped(top_half) == IF top_half THEN 2 ELSE 1

\* invaders.rs, half_step: `self.cpu.interrupt(if top_half { 1 } else { 2 })`
half_interrupt(top_half) == IF top_half THEN 1 ELSE 2

\* ------------------------------------------------------------------------
\* Disassembler: how many bytes op_name reads for an opcode
\* ------------------------------------------------------------------------
OpNameReads3 ==
    {1, 17, 33, 34, 42, 49, 50, 58, 194, 195, 196, 202, 204, 205, 210, 212,
     218, 220, 226, 228, 236, 250, 252}

OpNameReads2 ==
    {6, 14, 22, 30, 38, 46, 54, 62, 198, 211, 214, 219, 230, 238, 246, 254}

\* opcodes without an arm in op_name ("Unknown opcode: XX")
OpNameUnknown ==
    {45, 59, 199, 203, 206, 207, 215, 217, 223, 231, 232, 234, 237, 239,
     242, 243, 244, 249, 253}

\* the panic op_name(address) can raise, for an address inside the array
op_name_trap(s, address, oc) ==
    LET op == read_byte(s, address)
    IN  IF op \in OpNameReads3 THEN read_bytes_trap(address + 1, oc)
        ELSE IF op \in OpNameReads2
             THEN (IF InBounds(address + 1) THEN "none" ELSE "OutOfBounds")
        ELSE "none"

\* State8080::next_opcode: the panic `self.op_name(self.pc)` can raise
next_opcode_trap(s, oc) ==
    IF InBounds(s.pc) THEN op_name_trap(s, s.pc, oc) ELSE "OutOfBounds"

\* op_name(address) falls to the default arm: "Unknown opcode: XX"
op_name_unknown(s, address) == read_byte(s, address) \in OpNameUnknown

\* ------------------------------------------------------------------------
\* State8080::emulate
\* ------------------------------------------------------------------------
\* INX: `*pair += 1`
inx(both, oc) ==
    IF both + 1 >= U16 /\ oc
    THEN [value |-> both, trap |-> "Overflow"]
    ELSE [value |-> AsU16(both + 1), trap |-> "none"]

\* the match arms of emulate, for an opcode fetched at an address inside
\* the array; result [s, io, cycles, trap], pc already advanced by pc_incr
execute(s, io, op_code, oc) ==
    LET R(s2, incr, cyc) ==
            [s |-> [s2 EXCEPT !.pc = AsU16(s2.pc + incr)], io |-> io,
             cycles |-> cyc, trap |-> "none"]
        T(s2, kind) == [s |-> s2, io |-> io, cycles |-> 0, trap |-> kind]
        W(r, incr, cyc) ==
            IF r.trap = "none" THEN R(r.s, incr, cyc) ELSE T(r.s, r.trap)
        t8 == read_byte_immediate_trap(s)
        t16 == read_bytes_immediate_trap(s, oc)
        d8 == read_byte_immediate(s)
        d16 == read_bytes_immediate(s)
        mOK == InBounds(s.hl)
        \* register forms 0..7 = B, C, D, E, H, L, M, A
        reg(i) ==
            CASE i = 0 -> b(s) [] i = 1 -> c(s) [] i = 2 -> d(s)
              [] i = 3 -> e(s) [] i = 4 -> h(s) [] i = 5 -> l(s)
              [] i = 6 -> m(s) [] i = 7 -> s.a
        alu(i, res) ==
            IF i = 6
            THEN (IF mOK THEN R(res, 1, 7) ELSE T(s, "OutOfBounds"))
            ELSE R(res, 1, 4)
        jcc(cond) ==
            IF cond THEN W(jmp(s, oc), 0, 10) ELSE R(s, 3, 10)
    IN
    CASE op_code = 0 -> R(s, 1, 4)                                   \* NOP
      [] op_code = 1 ->                                              \* LXI B
            IF t16 # "none" THEN T(s, t16)
            ELSE R([s EXCEPT !.bc = d16], 3, 10)
      [] op_code = 2 -> W(write_byte(s, s.bc, s.a), 1, 7)            \* STAX B
      [] op_code = 3 ->                                              \* INX B
            LET r == inx(s.bc, oc)
            IN  IF r.trap # "none" THEN T(s, r.trap)
                ELSE R([s EXCEPT !.bc = r.value], 1, 5)
      [] op_code = 4 ->                                              \* INR B
            LET v == AsU8(b(s) + 1)
            IN  R(set_flags([s EXCEPT !.bc = msb_mut(@, v)], v), 1, 5)
      [] op_code = 5 ->                                              \* DCR B
            LET v == AsU8(b(s) + 255)
            IN  R(set_flags([s EXCEPT !.bc = msb_mut(@, v)], v), 1, 5)
      [] op_code = 6 ->                                              \* MVI B
            IF t8 # "none" THEN T(s, t8)
            ELSE R([s EXCEPT !.bc = msb_mut(@, d8)], 2, 7)
      [] op_code = 7 ->                                              \* RLC
            LET bit7 == Bit(s.a, 7)
            IN  R([s EXCEPT !.a = AsU8(s.a * 2) + bit7,
                            !.flags = [@ EXCEPT !.carry = (bit7 # 0)]], 1, 4)
      [] op_code = 9 -> R(dad(s, s.bc), 1, 10)                       \* DAD B
      [] op_code = 10 ->                                             \* LDAX B
            IF ~InBounds(s.bc) THEN T(s, "OutOfBounds")
            ELSE R([s EXCEPT !.a = read_byte(s, s.bc)], 1, 7)
      [] op_code = 12 ->                                             \* INR C
            LET v == AsU8(c(s) + 1)
            IN  R(set_flags([s EXCEPT !.bc = lsb_mut(@, v)], v), 1, 5)
      [] op_code = 13 ->                                             \* DCR C
            LET v == AsU8(c(s) + 255)
            IN  R(set_flags([s EXCEPT !.bc = lsb_mut(@, v)], v), 1, 5)
      [] op_code = 14 ->                                             \* MVI C
            IF t8 # "none" THEN T(s, t8)
            ELSE R([s EXCEPT !.bc = lsb_mut(@, d8)], 2, 7)
      [] op_code = 15 ->                                             \* RRC
            LET bit0 == Bit(s.a, 0)
            IN  R([s EXCEPT !.a = (s.a \div 2) + bit0 * 128,
                            !.flags = [@ EXCEPT !.carry = (bit0 # 0)]], 1, 4)
      [] op_code = 17 ->                                             \* LXI D
            IF t16 # "none" THEN T(s, t16)
            ELSE R([s EXCEPT !.de = d16], 3, 10)
      [] op_code = 19 ->                                             \* INX D
            LET r == inx(s.de, oc)
            IN  IF r.trap # "none" THEN T(s, r.trap)
                ELSE R([s EXCEPT !.de = r.value], 1, 5)
      [] op_code = 22 ->                                             \* MVI D
            IF t8 # "none" THEN T(s, t8)
            ELSE R([s EXCEPT !.de = msb_mut(@, d8)], 2, 7)
      [] op_code = 23 ->                                             \* RAL
            LET bit7 == Bit(s.a, 7)
            IN  R([s EXCEPT !.a = AsU8(s.a * 2)
                                    + (IF s.flags.carry THEN 1 ELSE 0),
                            !.flags = [@ EXCEPT !.carry = (bit7 # 0)]], 1, 4)
      [] op_code = 25 -> R(dad(s, s.de), 1, 10)                      \* DAD D
      [] op_code = 26 ->                                             \* LDAX D
            IF ~InBounds(s.de) THEN T(s, "OutOfBounds")
            ELSE R([s EXCEPT !.a = read_byte(s, s.de)], 1, 7)
      [] op_code = 30 ->                                             \* MVI E
            IF t8 # "none" THEN T(s, t8)
            ELSE R([s EXCEPT !.de = lsb_mut(@, d8)], 2, 7)
      [] op_code = 31 ->                                             \* RAR
            LET bit0 == Bit(s.a, 0)
                bit7 == Bit(s.a, 7) * 128
            IN  R([s EXCEPT !.a = BitOr(s.a \div 2, bit7),
                            !.flags = [@ EXCEPT !.carry = (bit0 # 0)]], 1, 4)
      [] op_code = 32 -> R(s, 1, 4)                                  \* NOP
      [] op_code = 33 ->                                             \* LXI H
            IF t16 # "none" THEN T(s, t16)
            ELSE R([s EXCEPT !.hl = d16], 3, 10)
      [] op_code = 35 ->                                             \* INX H
            LET r == inx(s.hl, oc)
            IN  IF r.trap # "none" THEN T(s, r.trap)
                ELSE R([s EXCEPT !.hl = r.value], 1, 5)
      [] op_code = 38 ->                                             \* MVI H
            IF t8 # "none" THEN T(s, t8)
            ELSE R([s EXCEPT !.hl = msb_mut(@, d8)], 2, 7)
      [] op_code = 41 -> R(dad(s, s.hl), 1, 10)                      \* DAD H
      [] op_code = 46 ->                                             \* MVI L
            IF t8 # "none" THEN T(s, t8)
            ELSE R([s EXCEPT !.hl = lsb_mut(@, d8)], 2, 7)
      [] op_code = 47 -> R([s EXCEPT !.a = BitNot8(@)], 1, 4)        \* CMA
      [] op_code = 49 ->                                             \* LXI SP
            IF t16 # "none" THEN T(s, t16)
            ELSE R([s EXCEPT !.sp = d16], 3, 10)
      [] op_code = 50 ->                                             \* STA
            IF t16 # "none" THEN T(s, t16)
            ELSE W(write_byte(s, d16, s.a), 3, 13)
      [] op_code = 53 ->                                             \* DCR M
            LET w == m_mut(s, AsU8(m(s) + 255))
            IN  IF w.trap # "none" THEN T(w.s, w.trap)
                ELSE R(set_flags(w.s, m(w.s)), 1, 10)
      [] op_code = 54 ->                                             \* MVI M
            IF t8 # "none" THEN T(s, t8)
            ELSE W(m_mut(s, d8), 2, 10)
      [] op_code = 55 ->                                             \* STC
            R([s EXCEPT !.flags = [@ EXCEPT !.carry = TRUE]], 1, 4)
      [] op_code = 58 ->                                             \* LDA
            IF t16 # "none" THEN T(s, t16)
            ELSE IF ~InBounds(d16) THEN T(s, "OutOfBounds")
            ELSE R([s EXCEPT !.a = read_byte(s, d16)], 3, 13)
      [] op_code = 61 ->                                             \* DCR A
            LET v == AsU8(s.a + 255)
            IN  R(set_flags([s EXCEPT !.a = v], v), 1, 7)
      [] op_code = 62 ->                                             \* MVI A
            IF t8 # "none" THEN T(s, t8)
            ELSE R([s EXCEPT !.a = d8], 2, 7)
      [] op_code = 63 ->                                             \* CMC
            R([s EXCEPT !.flags = [@ EXCEPT !.carry = ~@]], 1, 4)
      [] op_code = 79 -> R([s EXCEPT !.bc = lsb_mut(@, s.a)], 1, 5)  \* MOV C,A
      [] op_code = 86 ->                                             \* MOV D,M
            IF ~mOK THEN T(s, "OutOfBounds")
            ELSE R([s EXCEPT !.de = msb_mut(@, m(s))], 1, 7)
      [] op_code = 87 -> R([s EXCEPT !.de = msb_mut(@, s.a)], 1, 5)  \* MOV D,A
      [] op_code = 94 ->                                             \* MOV E,M
            IF ~mOK THEN T(s, "OutOfBounds")
            ELSE R([s EXCEPT !.de = lsb_mut(@, m(s))], 1, 7)
      [] op_code = 95 -> R([s EXCEPT !.de = lsb_mut(@, s.a)], 1, 5)  \* MOV E,A
      [] op_code = 102 ->                                            \* MOV H,M
            IF ~mOK THEN T(s, "OutOfBounds")
            ELSE R([s EXCEPT !.hl = msb_mut(@, m(s))], 1, 7)
      [] op_code = 103 -> R([s EXCEPT !.hl = msb_mut(@, s.a)], 1, 5) \* MOV H,A
      [] op_code = 111 -> R([s EXCEPT !.hl = lsb_mut(@, s.a)], 1, 5) \* MOV L,A
      [] op_code = 119 -> W(m_mut(s, s.a), 1, 7)                     \* MOV M,A
      [] op_code = 122 -> R([s EXCEPT !.a = d(s)], 1, 5)             \* MOV A,D
      [] op_code = 123 -> R([s EXCEPT !.a = e(s)], 1, 5)             \* MOV A,E
      [] op_code = 124 -> R([s EXCEPT !.a = h(s)], 1, 5)             \* MOV A,H
      [] op_code = 126 ->                                            \* MOV A,M
            IF ~mOK THEN T(s, "OutOfBounds")
            ELSE R([s EXCEPT !.a = m(s)], 1, 7)
      [] op_code = 118 -> T(s, "Halt")                               \* HLT
      [] op_code \in 128..135 ->                                     \* ADD r
            alu(op_code - 128, add(s, reg(op_code - 128)))
      [] op_code \in 160..167 ->                                     \* ANA r
            alu(op_code - 160, and(s, reg(op_code - 160)))
      [] op_code \in 168..175 ->                                     \* XRA r
            alu(op_code - 168, xor(s, reg(op_code - 168)))
      [] op_code \in 176..183 ->                                     \* ORA r
            alu(op_code - 176, or(s, reg(op_code - 176)))
      [] op_code \in 184..191 ->                                     \* CMP r
            alu(op_code - 184, cmp(s, reg(op_code - 184)))
      [] op_code = 193 ->                                            \* POP B
            LET p == pop(s, oc)
            IN  IF p.trap # "none" THEN T(p.s, p.trap)
                ELSE R([p.s EXCEPT !.bc = p.value], 1, 10)
      [] op_code = 197 -> W(push(s, s.bc, oc), 1, 11)                \* PUSH B
      [] op_code = 194 -> jcc(~s.flags.zero)                         \* JNZ
      [] op_code = 195 -> W(jmp(s, oc), 0, 10)                       \* JMP
      [] op_code = 198 ->                                            \* ADI
            IF t8 # "none" THEN T(s, t8) ELSE R(add(s, d8), 2, 7)
      [] op_code = 200 ->                                            \* RZ
            IF s.flags.zero THEN W(ret(s, oc), 0, 11) ELSE R(s, 3, 5)
      [] op_code = 201 -> W(ret(s, oc), 0, 10)                       \* RET
      [] op_code = 202 -> jcc(s.flags.zero)                          \* JZ
      [] op_code = 205 -> W(call(s, oc), 0, 17)                      \* CALL
      [] op_code = 209 ->                                            \* POP D
            LET p == pop(s, oc)
            IN  IF p.trap # "none" THEN T(p.s, p.trap)
                ELSE R([p.s EXCEPT !.de = p.value], 1, 10)
      [] op_code = 210 -> jcc(~s.flags.carry)                        \* JNC
      [] op_code = 211 ->                                            \* OUT
            IF t8 # "none" THEN T(s, t8)
            ELSE LET r == io_state_output(io, d8, s.a)
                 IN  IF r.trap # "none" THEN T(s, r.trap)
                     ELSE [R(s, 2, 10) EXCEPT !.io = r.io]
      [] op_code = 213 -> W(push(s, s.de, oc), 1, 11)                \* PUSH D
      [] op_code = 216 ->                                            \* RC
            IF s.flags.carry THEN W(ret(s, oc), 0, 11) ELSE R(s, 1, 5)
      [] op_code = 218 -> jcc(s.flags.carry)                         \* JC
      [] op_code = 219 ->                                            \* IN
            IF t8 # "none" THEN T(s, t8)
            ELSE LET r == io_state_input(io, d8)
                 IN  IF r.trap # "none" THEN T(s, r.trap)
                     ELSE R([s EXCEPT !.a = r.value], 2, 10)
      [] op_code = 225 ->                                            \* POP H
            LET p == pop(s, oc)
            IN  IF p.trap # "none" THEN T(p.s, p.trap)
                ELSE R([p.s EXCEPT !.hl = p.value], 1, 10)
      [] op_code = 226 -> jcc(~s.flags.even_parity)                  \* JPO
      [] op_code = 229 -> W(push(s, s.hl, oc), 1, 11)                \* PUSH H
      [] op_code = 230 ->                                            \* ANI
            IF t8 # "none" THEN T(s, t8) ELSE R(and(s, d8), 2, 7)
      [] op_code = 234 -> jcc(s.flags.even_parity)                   \* JPE
      [] op_code = 235 ->                                            \* XCHG
            R([s EXCEPT !.de = s.hl, !.hl = s.de], 1, 5)
      [] op_code = 241 ->                                            \* POP AF
            LET p == pop(s, oc)
            IN  IF p.trap # "none" THEN T(p.s, p.trap)
                ELSE R(set_af(p.s, p.value), 1, 10)
      [] op_code = 242 -> jcc(~s.flags.sign_negative)                \* JP
      [] op_code = 243 ->                                            \* DI
            R([s EXCEPT !.interrupts_enabled = FALSE], 1, 4)
      [] op_code = 245 -> W(push(s, af(s), oc), 1, 11)               \* PUSH AF
      [] op_code = 250 -> jcc(s.flags.sign_negative)                 \* JM
      [] op_code = 251 ->                                            \* EI
            R([s EXCEPT !.interrupts_enabled = TRUE], 1, 4)
      [] op_code = 254 ->                                            \* CPI
            IF t8 # "none" THEN T(s, t8) ELSE R(cmp(s, d8), 2, 7)
      [] OTHER -> T(s, "Unimplemented")

\* the opcodes that have an arm in the match of emulate
Implemented ==
    {9, 10, 17, 19, 22, 23, 25, 26, 35, 38, 41, 46, 47, 49, 50, 58, 79,
    86, 87, 94, 95, 102, 103, 111, 118, 119, 126, 197, 198, 205, 213, 216,
    218, 219, 225, 226, 229, 230, 234, 235, 245, 250, 251, 254} \cup
    (0..7) \cup (12..15) \cup (30..33) \cup (53..55) \cup (61..63) \cup
    (122..124) \cup (128..135) \cup (160..191) \cup (193..195) \cup
    (200..202) \cup (209..211) \cup (241..243)

\* emulate with the slip of skipping an opcode that has no arm
emulate_skips_unknown(s, io, oc) ==
    IF ~InBounds(s.pc)
    THEN [s |-> s, io |-> io, cycles |-> 0, trap |-> "OutOfBounds"]
    ELSE IF read_byte(s, s.pc) \notin Implemented
    THEN [s |-> [s EXCEPT !.pc = AsU16(s.pc + 1)], io |-> io, cycles |-> 4,
          trap |-> "none"]
    ELSE LET t == op_name_trap(s, s.pc, oc)
         IN  IF t # "none"
             THEN [s |-> s, io |-> io, cycles |-> 0, trap |-> t]
             ELSE execute(s, io, read_byte(s, s.pc), oc)

\* emulate with the slip of running HLT as a one-byte instruction
emulate_hlt_continues(s, io, oc) ==
    IF ~InBounds(s.pc)
    THEN [s |-> s, io |-> io, cycles |-> 0, trap |-> "OutOfBounds"]
    ELSE IF read_byte(s, s.pc) = 118
    THEN [s |-> [s EXCEPT !.pc = AsU16(s.pc + 1)], io |-> io, cycles |-> 7,
          trap |-> "none"]
    ELSE LET t == op_name_trap(s, s.pc, oc)
         IN  IF t # "none"
             THEN [s |-> s, io |-> io, cycles |-> 0, trap |-> t]
             ELSE execute(s, io, read_byte(s, s.pc), oc)

\* emulate: fetch, the debug print (which disassembles the instruction),
\* then the match
emulate(s, io, oc) ==
    IF ~InBounds(s.pc)
    THEN [s |-> s, io |-> io, cycles |-> 0, trap |-> "OutOfBounds"]
    ELSE LET t == op_name_trap(s, s.pc, oc)
         IN  IF t # "none"
             THEN [s |-> s, io |-> io, cycles |-> 0, trap |-> t]
             ELSE execute(s, io, read_byte(s, s.pc), oc)

\* interrupt with the slip of enabling interrupts when it ignores one
interrupt_rearms(s, interrupt_num, oc) ==
    IF s.interrupts_enabled
    THEN LET p == push(s, s.pc, oc)
         IN  IF p.trap # "none" THEN p
             ELSE IF oc /\ 8 * interrupt_num >= U16
             THEN Fail(p.s, "Overflow")
             ELSE Ok([p.s EXCEPT !.pc = AsU16(8 * interrupt_num),
                                 !.interrupts_enabled = FALSE])
    ELSE Ok([s EXCEPT !.interrupts_enabled = TRUE])

\* interrupt with the slip of leaving interrupts enabled
interrupt_keeps_enabled(s, interrupt_num, oc) ==
    IF s.interrupts_enabled
    THEN LET p == push(s, s.pc, oc)
         IN  IF p.trap # "none" THEN p
             ELSE IF oc /\ 8 * interrupt_num >= U16
             THEN Fail(p.s, "Overflow")
             ELSE Ok([p.s EXCEPT !.pc = AsU16(8 * interrupt_num)])
    ELSE Ok(s)

\* interrupt with the slip of not testing interrupts_enabled
interrupt_unguarded(s, interrupt_num, oc) ==
    LET p == push(s, s.pc, oc)
    IN  IF p.trap # "none" THEN p
        ELSE IF oc /\ 8 * interrupt_num >= U16
        THEN Fail(p.s, "Overflow")
        ELSE Ok([p.s EXCEPT !.pc = AsU16(8 * interrupt_num),
                            !.interrupts_enabled = FALSE])

\* State8080::interrupt: [s, trap].  `8 * interrupt_num` is a u16 product:
\* past 65535 it panics after the push in a build with overflow checks and
\* wraps in a build without
interrupt(s, interrupt_num, oc) ==
    IF s.interrupts_enabled
    THEN LET p == push(s, s.pc, oc)
         IN  IF p.trap # "none" THEN p
             ELSE IF oc /\ 8 * interrupt_num >= U16
             THEN Fail(p.s, "Overflow")
             ELSE Ok([p.s EXCEPT !.pc = AsU16(8 * interrupt_num),
                                 !.interrupts_enabled = FALSE])
    ELSE Ok(s)

\* ------------------------------------------------------------------------
\* State8080::step, one loop iteration at a time
\* ------------------------------------------------------------------------
\* dt is a number of ticks of 2^-22 s, so that FREQ * dt is exact in f64
DT_DEN == Pow2(22)

\* (FREQ * dt) as u64: the cast truncates, and saturates a negative to 0
budget(dt) == IF dt < 0 THEN 0 ELSE (FREQ * dt) \div DT_DEN

\* `(FREQ * dt) as u64 - self.cycle_debt`.  The u64 difference is kept as
\* the signed number v: v >= 0 is the budget itself, v < 0 stands for the
\* wrapped value 2^64 + v of a build without overflow checks.
step_cycles_of(s, dt, oc) ==
    LET v == budget(dt) - s.cycle_debt
    IN  IF v < 0 /\ oc
        THEN [value |-> 0, trap |-> "Overflow"]
        ELSE [value |-> v, trap |-> "none"]

\* `while spent_cycles < step_cycles`
loop_continues(spent, stepc) == stepc < 0 \/ spent < stepc

\* debt_of with the slip of keeping all the cycles spent as debt
debt_of_all_spent(spent, stepc) == spent

\* `spent_cycles - step_cycles` at loop exit (stepc >= 0 there)
debt_of(spent, stepc) == spent - stepc

\* ------------------------------------------------------------------------
\* Bounds of the exploration
\* ------------------------------------------------------------------------
\* calls of Machine::step the host makes
MaxSteps == 3

\* calls of Machine::step a host makes that steps in very small dt
MaxRateSteps == 20

\* cycles explored inside one step whose budget wrapped around
MaxSpent == 40

\* dt values the host passes to step, in ticks of 2^-22 s
\* (0.95, 10.01 and 100.1 cycles: budgets 0, 10 and 100)
DtTicks == {2, 21, 210}

\* the small dt of the rate specification (0.95 and 3.81 cycles)
RateTicks == {2, 8}

\* keys the host presses or releases ("Other" is a key key_press ignores)
HostKeys == {"C", "Other"}

\* the two interrupts of the machine, and a number whose product by 8 does
\* not fit the 16-bit program counter
InterruptNums == {1, 2, 8193}

\* largest cycle count any arm of emulate returns (CALL)
MaxInstrCost == 17

\* ------------------------------------------------------------------------
\* ROM images
\* ------------------------------------------------------------------------
Lo(x) == x % 256

Hi(x) == x \div 256

NOP == <<0>>

HLT == <<118>>

EI == <<251>>

DI == <<243>>

STC == <<55>>

RET == <<201>>

LXI_B(x) == <<1, Lo(x), Hi(x)>>

LXI_D(x) == <<17, Lo(x), Hi(x)>>

LXI_H(x) == <<33, Lo(x), Hi(x)>>

LXI_SP(x) == <<49, Lo(x), Hi(x)>>

MVI_A(x) == <<62, x>>

MVI_B(x) == <<6, x>>

MVI_C(x) == <<14, x>>

MVI_M(x) == <<54, x>>

STA(x) == <<50, Lo(x), Hi(x)>>

JMP(x) == <<195, Lo(x), Hi(x)>>

CALL(x) == <<205, Lo(x), Hi(x)>>

ADI(x) == <<198, x>>

ANI(x) == <<230, x>>

CPI(x) == <<254, x>>

OUT(x) == <<211, x>>

INP(x) == <<219, x>>

\* n NOP bytes
Pad(n) == [i \in 1..n |-> 0]

\* scenario 1 and 2 of the specification, and an arithmetic tour
\* MVI A,x; MVI B,y; ADD B; CPI y; ANI x; STC; INR B; STC; DCR B;
\* STC; DCR A; STC; INR C; HLT
AluRom(x, y) ==
    MVI_A(x) \o MVI_B(y) \o <<128>> \o CPI(y) \o ANI(x) \o STC \o <<4>>
    \o STC \o <<5>> \o STC \o <<61>> \o STC \o <<12>> \o HLT

\* MVI A,x; ORA A; XRA B; LXI H,0x2000; MVI M,y; STC; DCR M; ADD M; DCR C; HLT
AluRom2(x, y) ==
    MVI_A(x) \o <<183>> \o <<168>> \o LXI_H(8192) \o MVI_M(y) \o STC
    \o <<53>> \o <<134>> \o <<13>> \o HLT

\* stores through every path that writes memory, aimed at `addr`
\* kind 0: MVI A,0x5A; LXI H,addr; MOV M,A; HLT
\* kind 1: LXI H,addr; MVI M,0x77; HLT
\* kind 2: LXI H,addr; DCR M; HLT
\* kind 3: MVI A,0x5A; STA addr; HLT
\* kind 4: MVI A,0x5A; LXI B,addr; STAX B; HLT
\* kind 5: LXI SP,addr+2; LXI B,0x1234; PUSH B; HLT
\* kind 6: LXI SP,addr+2; CALL 7; HLT; HLT
\* kind 7: LXI SP,addr+2; MVI A,0x5A; PUSH AF; HLT
StoreKinds == 0..7

StoreRom(kind, addr) ==
    CASE kind = 0 -> MVI_A(90) \o LXI_H(addr) \o <<119>> \o HLT
      [] kind = 1 -> LXI_H(addr) \o MVI_M(119) \o HLT
      [] kind = 2 -> LXI_H(addr) \o <<53>> \o HLT
      [] kind = 3 -> MVI_A(90) \o STA(addr) \o HLT
      [] kind = 4 -> MVI_A(90) \o LXI_B(addr) \o <<2>> \o HLT
      [] kind = 5 -> LXI_SP(AsU16(addr + 2)) \o LXI_B(4660) \o <<197>> \o HLT
      [] kind = 6 -> LXI_SP(AsU16(addr + 2)) \o CALL(7) \o HLT \o HLT
      [] kind = 7 -> LXI_SP(AsU16(addr + 2)) \o MVI_A(90) \o <<245>> \o HLT

\* addresses in ROM, at both ends of RAM, and past the array
StoreAddrs == {5, 8191, 8192, 16383, 16384}

\* LXI SP,sp; LXI B,x; LXI D,y; PUSH B; PUSH D; POP H; POP B;
\* MVI A,x; ADI y; PUSH AF; XRA A; POP AF; PUSH H; POP D; HLT
StackRom(sp, x, y) ==
    LXI_SP(sp) \o LXI_B(x) \o LXI_D(y) \o <<197>> \o <<213>> \o <<225>>
    \o <<193>> \o MVI_A(Lo(x)) \o ADI(Lo(y)) \o <<245>> \o <<175>>
    \o <<241>> \o <<229>> \o <<209>> \o HLT

\* 0: LXI SP,sp; 3: CALL 12; 6: LXI B,0x0201; 9: PUSH B; 10: POP D;
\* 11: HLT; the callee at 12: PUSH H; POP H; RET
CallRom(sp) ==
    LXI_SP(sp) \o CALL(12) \o LXI_B(513) \o <<197>> \o <<209>> \o HLT
    \o <<229>> \o <<225>> \o RET

\* a callee that overwrites its own return address before returning
\* 0: LXI SP,sp; 3: CALL 7; 6: HLT; 7: MVI A,6+k; 9: STA sp-2; 12: RET
ClobberRom(sp, k) ==
    LXI_SP(sp) \o CALL(7) \o HLT \o MVI_A(6 + k) \o STA(AsU16(sp - 2 + U16))
    \o RET

\* interrupts: 0: JMP 32; 8: EI; RET; 16: RET; 32: [LXI SP,sp;] EI;
\* 36: NOP; DI; NOP; EI; NOP; NOP; JMP 36 (a loop that turns interrupts
\* off and on)
IntRom(sp, set_sp) ==
    JMP(32) \o Pad(5) \o EI \o RET \o Pad(6) \o RET \o Pad(15)
    \o (IF set_sp THEN LXI_SP(sp) ELSE Pad(3))
    \o EI \o NOP \o DI \o NOP \o EI \o NOP \o NOP \o JMP(36)

\* shift register and ports: scenario 5 followed by reads of every port
IoRom ==
    MVI_A(170) \o OUT(4) \o MVI_A(187) \o OUT(4) \o MVI_A(4) \o OUT(2)
    \o INP(3) \o INP(1) \o INP(2) \o OUT(3) \o INP(0) \o HLT

\* code that runs off the end of the array, and an opcode without an arm
EdgeRom(k) ==
    CASE k = 0 -> JMP(16382) 
      [] k = 1 -> JMP(16384)
      [] k = 2 -> <<8>>
      [] k = 3 -> LXI_B(65535) \o <<3>> \o HLT
      [] k = 4 -> <<201>>
      [] k = 5 -> NOP \o NOP \o JMP(0)

\* an image one byte longer than the memory array
LongRom == <<1>> \o Pad(MEMORY_SIZE - 1) \o <<3>>

AluValues == {0, 1, 7, 128, 255}

StackPointers == {8193, 8194, 9216, 16384, 16385, 0}

Roms ==
    {<<>>}
    \cup {AluRom(x, y) : x \in AluValues, y \in {1, 3, 255}}
    \cup {AluRom2(x, y) : x \in AluValues, y \in {0, 1}}
    \cup {StoreRom(k, a) : k \in StoreKinds, a \in StoreAddrs}
    \cup {StackRom(sp, x, y) : sp \in StackPointers, x \in {4660}, y \in {43981}}
    \cup {CallRom(sp) : sp \in StackPointers}
    \cup {ClobberRom(9216, k) : k \in {0, 1}}
    \cup {IntRom(sp, f) : sp \in {9216, 8193}, f \in BOOLEAN}
    \cup {IoRom}
    \cup {EdgeRom(k) : k \in 0..5}
    \cup {LongRom}

\* ------------------------------------------------------------------------
\* The machine
\* ------------------------------------------------------------------------
VARIABLES
    rom,            \* the ROM image the machine was built from
    oc,             \* the build has overflow checks
    cpu,            \* SpaceInvaders.state
    io,             \* SpaceInvaders.io_state
    cycles,         \* SpaceInvaders.cycles
    status,         \* "Running", or what ended the process
    pos,            \* "idle", or "stepping" inside State8080::step
    step_cycles,    \* local of State8080::step
    spent_cycles,   \* local of State8080::step
    pre,            \* history: cpu, io and cycles before the last action
    last,           \* history: the last action
    frames,         \* history: the pushes not yet popped
    ticks_total,    \* history: sum of the dt passed to step, in ticks
    budgets,        \* history: sum of floor(FREQ * dt) over the steps begun
    ie_event,       \* history: the last of construction, DI, EI, interrupt serviced
    steps,          \* history: number of calls of step; the counter i of main.rs
    window,         \* history: the keys down at the last update_input
    video,          \* the pixel buffer and the locals of the screen loop
    facade          \* invaders.rs: ref_cpu, frames, instructions, the half-frame

vars ==
    <<rom, oc, cpu, io, cycles, status, pos, step_cycles, spent_cycles,
      pre, last, frames, ticks_total, budgets, ie_event, steps, window, video, facade>>

Snapshot == [cpu |-> cpu, io |-> io, cycles |-> cycles, frames |-> frames]

\* op: the action; opcode: the byte fetched by an emulate; n: the argument
\* of step (ticks) or interrupt; cycles: what the call returned; cost: at
\* the end of a step, the cycles of the last instruction it ran (0: none)
NoOp ==
    [op |-> "init", opcode |-> 0, n |-> 0, cycles |-> 0, cost |-> 0,
     trap |-> "none"]

\* no update_input yet
NoWindow == [updated |-> FALSE, down |-> {}]

\* no screen yet: index counts the bytes the loop has read, x and y are the
\* locals of Machine::screen, on is the set of the pixels that are ON
NoVideo == [index |-> 0, x |-> 0, y |-> 0, on |-> {}]

\* what cpu_compare of invaders.rs reads of a CPU: pc, a, b, c, d, e, h, l,
\* sp and the five flags
Compared(s) ==
    [pc |-> s.pc, a |-> s.a, b |-> b(s), c |-> c(s), d |-> d(s), e |-> e(s),
     h |-> h(s), l |-> l(s), sp |-> s.sp, flags |-> s.flags]

\* `self.ref_cpu.emulate(&mut self.ref_io_state)`: the reference CPU is the
\* crate i8080, outside this repository.  Its step is any of: what
\* cpu_compare reads is what the CPU holds after its own step (view), or
\* it differs (in the PC, the first field compared)
RefEmulated(view) ==
    {view, [view EXCEPT !.pc = (@ + 1) % U16]}

\* `if self.ref_cpu.int_enable { self.ref_cpu.interrupt(8 or 16) }`: the
\* reference CPU ignores the interrupt or pushes its PC and goes to 8 * n
RefInterrupted(view, n) ==
    {view, [view EXCEPT !.pc = 8 * n, !.sp = AsU16(@ - 2 + U16)]}

\* SpaceInvaders::from_rom of invaders.rs: ref_cpu (what cpu_compare reads
\* of it), instructions, frames; top_half is the argument of the half_step
\* in progress; raised is the history of the interrupts the facade has
\* raised
NoFacade ==
    [ref_cpu |-> Compared(new(<< >>).s),
     instructions |-> 0, frames |-> 0, top_half |-> TRUE, raised |-> <<>>]

\* SpaceInvaders::from_rom, with an IO shim out of `shims`
InitWithIo(roms, shims) ==
    /\ rom \in roms
    /\ oc \in BOOLEAN
    /\ cpu = new(rom).s
    /\ io \in shims
    /\ cycles = 0
    /\ status = IF new(rom).trap = "none" THEN "Running" ELSE new(rom).trap
    /\ pos = "idle"
    /\ step_cycles = 0
    /\ spent_cycles = 0
    /\ pre = [cpu |-> cpu, io |-> io, cycles |-> 0, frames |-> <<>>]
    /\ last = NoOp
    /\ frames = <<>>
    /\ ticks_total = 0
    /\ budgets = 0
    /\ ie_event = "construction"
    /\ steps = 0
    /\ window = NoWindow
    /\ video = NoVideo
    /\ facade = NoFacade

\* SpaceInvaders::from_rom of machine.rs
InitWith(roms) == InitWithIo(roms, {SpaceInvadersIO_new})

Init == InitWith(Roms)

\* the 16-bit slot [a, a + 1] reads the same in both memories
SlotSame(m1, m2, a) ==
    /\ Mem(m1, a) = Mem(m2, a)
    /\ Mem(m1, AsU16(a + 1)) = Mem(m2, AsU16(a + 1))

\* frames whose slot was overwritten are no longer intact
Mark(fs, m1, m2) ==
    [i \in 1..Len(fs) |->
        [fs[i] EXCEPT !.intact = @ /\ SlotSame(m1, m2, AsU16(fs[i].s - 2 + U16))]]

PushOps == {197, 213, 229, 245, 205}

\* the last event of construction, DI, EI and interrupt serviced, after an
\* emulate took s1 to the result r
EventAfterEmulate(s1, r, ev) ==
    IF r.trap # "none" THEN ev
    ELSE IF read_byte(s1, s1.pc) = 251 THEN "EI"
    ELSE IF read_byte(s1, s1.pc) = 243 THEN "DI"
    ELSE ev

\* and after a call of interrupt on s1 with the result r
EventAfterInterrupt(s1, r, ev) ==
    IF r.trap = "none" /\ r.s # s1 THEN "interrupt" ELSE ev

PopOps == {193, 209, 225, 241, 201}

\* the frames after one instruction or interrupt took cpu from s1 to s2
\* a frame: s the SP before the push, at the PC of the pushing instruction,
\* by its opcode (0: an interrupt), value the word pushed, a and flags the
\* accumulator and the flags at the push
NextFrames(fs, s1, s2, kind, by, value) ==
    LET marked == Mark(fs, s1.memory, s2.memory)
    IN  IF kind = "push"
        THEN Append(marked, [s |-> s1.sp, at |-> s1.pc, by |-> by,
                             value |-> value, intact |-> TRUE,
                             a |-> s1.a, flags |-> s1.flags])
        ELSE IF kind = "pop" /\ Len(marked) > 0
        THEN SubSeq(marked, 1, Len(marked) - 1)
        ELSE marked

\* what the instruction at s1.pc did to the stack, given that it completed
StackKind(s1, s2) ==
    LET op == read_byte(s1, s1.pc)
    IN  IF op \in PushOps THEN "push"
        ELSE IF op \in PopOps THEN "pop"
        ELSE IF op \in {200, 216} /\ s2.sp # s1.sp THEN "pop"
        ELSE "none"

\* the 16-bit value a push instruction at s1.pc pushes
PushedValue(s1) ==
    LET op == read_byte(s1, s1.pc)
    IN  CASE op = 197 -> s1.bc
          [] op = 213 -> s1.de
          [] op = 229 -> s1.hl
          [] op = 245 -> af(s1)
          [] op = 205 -> s1.pc + 3
          [] OTHER -> 0

\* Machine::step entered: the budget is computed
StepBeginWith(dt, max_steps) ==
    /\ status = "Running"
    /\ pos = "idle"
    /\ steps < max_steps
    /\ steps' = steps + 1
    /\ LET r == step_cycles_of(cpu, dt, oc)
       IN  /\ status' = IF r.trap = "none" THEN "Running" ELSE r.trap
           /\ pos' = IF r.trap = "none" THEN "stepping" ELSE "idle"
           /\ step_cycles' = r.value
           /\ last' = [op |-> "step_begin", opcode |-> 0, n |-> dt,
                       cycles |-> 0, cost |-> 0, trap |-> r.trap]
    /\ spent_cycles' = 0
    /\ ticks_total' = ticks_total + dt
    /\ budgets' = budgets + budget(dt)
    /\ pre' = Snapshot
    /\ UNCHANGED <<rom, oc, cpu, io, cycles, frames, ie_event, window,
                   video, facade>>

StepBegin(dt) == StepBeginWith(dt, MaxSteps)

\* one iteration of the loop: `spent_cycles += self.emulate(io_state)`
Emulate ==
    /\ status = "Running"
    /\ pos = "stepping"
    /\ loop_continues(spent_cycles, step_cycles)
    /\ step_cycles < 0 => spent_cycles < MaxSpent
    /\ LET r == emulate(cpu, io, oc)
       IN  /\ cpu' = r.s
           /\ io' = r.io
           /\ status' = IF r.trap = "none" THEN "Running" ELSE r.trap
           /\ spent_cycles' = spent_cycles + r.cycles
           /\ last' = [op |-> "emulate",
                       opcode |-> IF InBounds(cpu.pc)
                                  THEN read_byte(cpu, cpu.pc) ELSE 0,
                       n |-> last.n, cycles |-> r.cycles, cost |-> r.cycles,
                       trap |-> r.trap]
           /\ frames' = IF r.trap = "none"
                        THEN NextFrames(frames, cpu, r.s, StackKind(cpu, r.s),
                                        read_byte(cpu, cpu.pc),
                                        PushedValue(cpu))
                        ELSE Mark(frames, cpu.memory, r.s.memory)
    /\ ie_event' = EventAfterEmulate(cpu, emulate(cpu, io, oc), ie_event)
    /\ pre' = Snapshot
    /\ UNCHANGED <<rom, oc, cycles, pos, step_cycles, ticks_total, budgets,
                   steps, window,
                   video, facade>>

\* the loop ends: the debt is stored, step returns spent_cycles and
\* Machine::step adds it to its total
StepEnd ==
    /\ status = "Running"
    /\ pos = "stepping"
    /\ ~loop_continues(spent_cycles, step_cycles)
    /\ cpu' = [cpu EXCEPT !.cycle_debt = debt_of(spent_cycles, step_cycles)]
    /\ cycles' = cycles + spent_cycles
    /\ pos' = "idle"
    /\ last' = [op |-> "step_end", opcode |-> 0, n |-> last.n,
                cycles |-> spent_cycles,
                cost |-> IF last.op = "emulate" THEN last.cycles ELSE 0,
                trap |-> "none"]
    /\ pre' = Snapshot
    /\ UNCHANGED <<rom, oc, io, status, step_cycles, spent_cycles, frames,
                   ticks_total, budgets, ie_event, steps, window,
                   video, facade>>

\* Machine::interrupt
Interrupt(n) ==
    /\ status = "Running"
    /\ pos = "idle"
    /\ LET r == interrupt(cpu, n, oc)
       IN  /\ cpu' = r.s
           /\ status' = IF r.trap = "none" THEN "Running" ELSE r.trap
           /\ last' = [op |-> "interrupt", opcode |-> 0, n |-> n,
                       cycles |-> 0, cost |-> 0, trap |-> r.trap]
           /\ frames' = IF r.trap = "none" /\ cpu.interrupts_enabled
                        THEN NextFrames(frames, cpu, r.s, "push", 0, cpu.pc)
                        ELSE Mark(frames, cpu.memory, r.s.memory)
    /\ ie_event' = EventAfterInterrupt(cpu, interrupt(cpu, n, oc), ie_event)
    /\ pre' = Snapshot
    /\ UNCHANGED <<rom, oc, io, cycles, pos, step_cycles, spent_cycles,
                   ticks_total, budgets, steps, window,
                   video, facade>>

\* Machine::key_press
KeyPress(key, press) ==
    /\ status = "Running"
    /\ pos = "idle"
    /\ io' = key_press(io, key, press)
    /\ last' = [op |-> "key_press", opcode |-> 0, n |-> 0, cycles |-> 0,
                cost |-> 0, trap |-> "none"]
    /\ pre' = Snapshot
    /\ UNCHANGED <<rom, oc, cpu, cycles, status, pos, step_cycles,
                   spent_cycles, frames, ticks_total, budgets, ie_event, steps, window,
                   video, facade>>

\* Machine::debug_text: the lines are made of the cycle total, the name of
\* the next opcode and the registers; nothing is written, and next_opcode
\* can panic
DebugText ==
    /\ status = "Running"
    /\ pos = "idle"
    /\ LET t == next_opcode_trap(cpu, oc)
       IN  /\ status' = IF t = "none" THEN "Running" ELSE t
           /\ last' = [op |-> "debug_text", opcode |-> 0, n |-> 0,
                       cycles |-> 0, cost |-> 0, trap |-> t]
    /\ pre' = Snapshot
    /\ UNCHANGED <<rom, oc, cpu, io, cycles, pos, step_cycles, spent_cycles,
                   frames, ticks_total, budgets, ie_event, steps, window,
                   video, facade>>

Next ==
    \/ \E dt \in DtTicks : StepBegin(dt)
    \/ Emulate
    \/ StepEnd
    \/ \E n \in InterruptNums : Interrupt(n)
    \/ \E key \in HostKeys, press \in BOOLEAN : KeyPress(key, press)
    \/ DebugText

Spec == Init /\ [][Next]_vars

\* a host that steps in very small dt, on programs that run forever
StepBeginRate(dt) == StepBeginWith(dt, MaxRateSteps)

InitRate == InitWith({<<>>, EdgeRom(5)})

NextRate ==
    \/ \E dt \in RateTicks : StepBeginRate(dt)
    \/ Emulate
    \/ StepEnd
    \/ \E n \in InterruptNums : Interrupt(n)
    \/ \E key \in HostKeys, press \in BOOLEAN : KeyPress(key, press)

SpecRate == InitRate /\ [][NextRate]_vars

\* ------------------------------------------------------------------------
\* Programs that exercise single instructions under chosen flags
\* ------------------------------------------------------------------------
\* 0: LXI SP,0x2400; 3: LXI B,psw_byte; 6: PUSH B; 7: POP AF; 8: body
\* (the flags are loaded from psw_byte before the body runs)
FlagRom(psw_byte, body) ==
    LXI_SP(9216) \o LXI_B(psw_byte) \o <<197>> \o <<241>> \o body

\* 8: Jcc 0x0120; 11: HLT; 0x0120: HLT
JccRom(jcc_op, psw_byte) ==
    FlagRom(psw_byte, <<jcc_op, 32, 1>> \o HLT \o Pad(276) \o HLT)

\* 8: CALL 16; 11: HLT; 16: Rcc; 17: HLT; 18: HLT; 19: HLT
RccRom(rcc_op, psw_byte) ==
    FlagRom(psw_byte, CALL(16) \o HLT \o Pad(4) \o <<rcc_op>> \o HLT \o HLT
                      \o HLT)

\* 8: PUSH AF; 9: POP D; 10: PUSH D; 11: POP AF; 12: HLT
PswRom(psw_byte) ==
    FlagRom(psw_byte, <<245>> \o <<209>> \o <<213>> \o <<241>> \o HLT)

\* one flag at a time, none, and all five
FlagBytes == {0, 1, 4, 16, 64, 128, 213}

CpuRoms ==
    {JccRom(op, f) : op \in {194, 195, 202, 210, 218, 226, 234, 242, 250},
                     f \in FlagBytes}
    \cup {RccRom(op, f) : op \in {200, 216}, f \in FlagBytes}
    \cup {PswRom(f) : f \in 0..255}

\* dt of 20.03 and 100.1 cycles
CpuTicks == {42, 210}

InitCpu == InitWith(CpuRoms)

NextCpu ==
    \/ \E dt \in CpuTicks : StepBegin(dt)
    \/ Emulate
    \/ StepEnd

SpecCpu == InitCpu /\ [][NextCpu]_vars

\* ------------------------------------------------------------------------
\* The two IO shims under programs that drive the ports, and a host that
\* forwards its keys
\* ------------------------------------------------------------------------
ByteSamples == {0, 1, 170, 187, 255}

\* the values written to port 2: every amount, and one with high bits set
AmountSamples == (0..7) \cup {252}

\* 0: MVI A,amount; 2: OUT 2; 4: MVI A,v0; 6: OUT 4; 8: MVI A,v1;
\* 10: OUT 4; 12: IN 3; 14: MVI A,v2; 16: OUT 4; 18: IN 3; 20: HLT
SlideRom(amount, v0, v1, v2) ==
    MVI_A(amount) \o OUT(2) \o MVI_A(v0) \o OUT(4) \o MVI_A(v1) \o OUT(4)
    \o INP(3) \o MVI_A(v2) \o OUT(4) \o INP(3) \o HLT

SlideRoms ==
    {SlideRom(amount, v0, v1, v2) :
        amount \in AmountSamples, v0 \in {0, 187}, v1 \in ByteSamples,
        v2 \in ByteSamples}

\* 0: MVI A,5; 2: OUT 2; 4: MVI A,0xAA; 6: OUT 4; 8: OUT/IN port; 10: HLT
PortRom(io_op, port) ==
    MVI_A(5) \o OUT(2) \o MVI_A(170) \o OUT(4) \o <<io_op, port>> \o HLT

PortRoms == {PortRom(io_op, port) : io_op \in {211, 219}, port \in 0..255}

\* 0: IN 1; 2: IN 2; 4: JMP 0
InputRom == INP(1) \o INP(2) \o JMP(0)

IoRoms == SlideRoms \cup PortRoms

\* the key states the host forwards: none, all, one key, and a mixed one
Snapshots ==
    {{}, WindowKeys, {"C", "Q", "Space", "Left"}}
    \cup {{key} : key \in WindowKeys}

\* dt of 40.05 cycles
IoTicks == {84}

\* the programs that drive the ports, on either shim
InitIo == InitWithIo(IoRoms, {SpaceInvadersIO_new, invaders_new})

NextIo ==
    \/ \E dt \in IoTicks : StepBegin(dt)
    \/ Emulate
    \/ StepEnd

SpecIo == InitIo /\ [][NextIo]_vars

\* ------------------------------------------------------------------------
\* The screen: Machine::screen of machine.rs between two steps, and the
\* frame step of invaders.rs with its two half frames
\* ------------------------------------------------------------------------
\* 0: JMP 0x20; 8: EI; RET; 0x10: EI; RET; 0x20: LXI SP,sp; then for
\* each <<address, value>> of stores MVI A,value; STA address; then EI and
\* a jump to itself
RECURSIVE StoreCode(_)
StoreCode(stores) ==
    IF stores = <<>> THEN <<>>
    ELSE MVI_A(stores[1][2]) \o STA(stores[1][1]) \o StoreCode(Tail(stores))

VideoRomAt(sp, stores) ==
    JMP(32) \o Pad(5) \o EI \o RET \o Pad(6) \o EI \o RET \o Pad(14)
    \o LXI_SP(sp) \o StoreCode(stores) \o EI
    \o JMP(36 + 5 * Len(stores))

\* the stack below the video RAM
VideoRom(stores) == VideoRomAt(VRAM_START, stores)

\* one pixel; pixels at both ends of a column, of the two halves and of
\* the screen; and one pixel under a stack that lies in the video RAM, so
\* that the interrupt at the end of a half frame overwrites memory[0x2400]
\* with the low byte of the PC (41) after the half was drawn
VideoRoms ==
    {VideoRom(<<<<9216, 1>>>>),
     VideoRom(<<<<9216, 129>>, <<9247, 128>>, <<9248, 1>>, <<12799, 255>>,
                <<12800, 1>>, <<16383, 128>>>>),
     VideoRomAt(VRAM_START + 2, <<<<9216, 1>>>>)}

\* dt of 200.3 cycles: the stores are done within one step
VideoTicks == {420}

MaxVideoSteps == 1

MaxFrames == 2

\* the key state of the host at the end of a frame (the programs that draw
\* read no port; SpecInput runs the frames over every key state)
FrameSnapshots == {{"C"}}

StepBeginVideo(dt) ==
    /\ ~IsInvaders(io)
    /\ StepBeginWith(dt, MaxVideoSteps)

\* Machine::screen of machine.rs entered: x = 0, y = height - 1, a new image
ScreenBegin ==
    /\ status = "Running"
    /\ pos = "idle"
    /\ ~IsInvaders(io)
    /\ pos' = "screen"
    /\ video' = [index |-> 0, x |-> 0, y |-> SCREEN_HEIGHT - 1, on |-> {}]
    /\ last' = [op |-> "screen_begin", opcode |-> 0, n |-> 0, cycles |-> 0,
                cost |-> 0, trap |-> "none"]
    /\ pre' = Snapshot
    /\ UNCHANGED <<rom, oc, cpu, io, cycles, status, step_cycles,
                   spent_cycles, frames, ticks_total, budgets, ie_event, steps, window, facade>>

\* one iteration of `for &byte in &self.state.memory()[0x2400..0x4000]`
ScreenByte ==
    /\ status = "Running"
    /\ pos = "screen"
    /\ VRAM_START + video.index < MEMORY_SIZE
    /\ LET r == screen_byte(video, cpu.memory)
       IN  /\ video' = r.v
           /\ status' = IF r.trap = "none" THEN "Running" ELSE r.trap
    /\ UNCHANGED <<rom, oc, cpu, io, cycles, pos, step_cycles, spent_cycles,
                   pre, last, frames, ticks_total, budgets, ie_event, steps, window, facade>>

\* the loop is over: screen returns the image
ScreenEnd ==
    /\ status = "Running"
    /\ pos = "screen"
    /\ VRAM_START + video.index = MEMORY_SIZE
    /\ pos' = "idle"
    /\ last' = [op |-> "screen", opcode |-> 0, n |-> 0, cycles |-> 0,
                cost |-> 0, trap |-> "none"]
    /\ UNCHANGED <<rom, oc, cpu, io, cycles, status, step_cycles,
                   spent_cycles, pre, frames, ticks_total, budgets, ie_event, steps, window,
                   video, facade>>

\* SpaceInvaders::step of invaders.rs entered: half_step(window, true)
FrameBegin ==
    /\ status = "Running"
    /\ pos = "idle"
    /\ IsInvaders(io)
    /\ facade.frames < MaxFrames
    /\ pos' = "half"
    /\ spent_cycles' = 0
    /\ steps' = steps + 1
    /\ facade' = [facade EXCEPT !.top_half = TRUE]
    /\ last' = [op |-> "frame_begin", opcode |-> 0, n |-> 0, cycles |-> 0,
                cost |-> 0, trap |-> "none"]
    /\ pre' = Snapshot
    /\ UNCHANGED <<rom, oc, cpu, io, cycles, status, step_cycles, frames,
                   ticks_total, budgets, ie_event, window, video>>

\* half_step, one iteration of `while cycles_spent < CYCLES_PER_FRAME / 2`:
\* the reference CPU and the CPU each run one instruction and cpu_compare
\* panics ("CompareFailed") when they differ.  The CPU of invaders.rs is
\* crate::cpu::CpuState, which is not among the sources: State8080 of
\* i8080.rs stands for it
HalfEmulate ==
    /\ status = "Running"
    /\ pos = "half"
    /\ spent_cycles < CYCLES_PER_FRAME \div 2
    /\ LET r == emulate(cpu, io, oc)
       IN  \E ref \in RefEmulated(Compared(r.s)) :
            LET t == IF r.trap # "none" THEN r.trap
                     ELSE IF ref # Compared(r.s) THEN "CompareFailed"
                     ELSE "none"
                ok == t = "none"
            IN  /\ cpu' = r.s
                /\ io' = r.io
                /\ status' = IF ok THEN "Running" ELSE t
                /\ spent_cycles' = IF ok THEN spent_cycles + r.cycles
                                   ELSE spent_cycles
                /\ cycles' = IF ok THEN cycles + r.cycles ELSE cycles
                /\ facade' = IF ok
                             THEN [facade EXCEPT !.ref_cpu = ref,
                                                 !.instructions = @ + 1]
                             ELSE [facade EXCEPT !.ref_cpu = ref]
                /\ last' = [op |-> "emulate",
                            opcode |-> IF InBounds(cpu.pc)
                                       THEN read_byte(cpu, cpu.pc) ELSE 0,
                            n |-> last.n, cycles |-> r.cycles,
                            cost |-> r.cycles, trap |-> t]
                /\ frames' = IF r.trap = "none"
                             THEN NextFrames(frames, cpu, r.s,
                                             StackKind(cpu, r.s),
                                             read_byte(cpu, cpu.pc),
                                             PushedValue(cpu))
                             ELSE Mark(frames, cpu.memory, r.s.memory)
    /\ ie_event' = EventAfterEmulate(cpu, emulate(cpu, io, oc), ie_event)
    /\ pre' = Snapshot
    /\ UNCHANGED <<rom, oc, pos, step_cycles, ticks_total, budgets, steps, window,
                   video>>

\* half_step, the loop is over: `self.screen(top_half)` entered
HalfScreenBegin ==
    /\ status = "Running"
    /\ pos = "half"
    /\ ~(spent_cycles < CYCLES_PER_FRAME \div 2)
    /\ pos' = "half_screen"
    /\ video' = [video EXCEPT !.index = 0]
    /\ UNCHANGED <<rom, oc, cpu, io, cycles, status, step_cycles,
                   spent_cycles, pre, last, frames, ticks_total, budgets, ie_event, steps,
                   window, facade>>

\* screen of invaders.rs, one iteration of `for offset in 0..0xE00`
HalfScreenByte ==
    /\ status = "Running"
    /\ pos = "half_screen"
    /\ video.index < HALF_BYTES
    /\ video' = window_byte(video, facade.top_half, cpu.memory)
    /\ UNCHANGED <<rom, oc, cpu, io, cycles, status, pos, step_cycles,
                   spent_cycles, pre, last, frames, ticks_total, budgets, ie_event, steps,
                   window, facade>>

\* half_step, its end: the window is updated and the interrupt is raised,
\* on the reference CPU and then on the CPU; after the second half step
\* ends with `self.frames += 1` and update_input
HalfEnd(down) ==
    /\ status = "Running"
    /\ pos = "half_screen"
    /\ video.index = HALF_BYTES
    /\ LET n == half_interrupt(facade.top_half)
           r == interrupt(cpu, n, oc)
           ok == r.trap = "none"
           top == facade.top_half
       IN  /\ \E ref \in RefInterrupted(facade.ref_cpu, n) :
                facade' = [facade EXCEPT
                            !.ref_cpu = ref,
                            !.raised = Append(@, n),
                            !.top_half = IF ok THEN ~top ELSE top,
                            !.frames = IF ok /\ ~top THEN @ + 1 ELSE @]
           /\ cpu' = r.s
           /\ status' = IF ok THEN "Running" ELSE r.trap
           /\ frames' = IF ok /\ cpu.interrupts_enabled
                        THEN NextFrames(frames, cpu, r.s, "push", 0, cpu.pc)
                        ELSE Mark(frames, cpu.memory, r.s.memory)
           /\ last' = [op |-> "interrupt", opcode |-> 0, n |-> n,
                       cycles |-> spent_cycles, cost |-> 0, trap |-> r.trap]
           /\ pos' = IF ~ok THEN pos ELSE IF top THEN "half" ELSE "idle"
           /\ spent_cycles' = IF ok /\ top THEN 0 ELSE spent_cycles
           /\ io' = IF ok /\ ~top THEN update_input(io, down) ELSE io
           /\ window' = IF ok /\ ~top
                        THEN [updated |-> TRUE, down |-> down]
                        ELSE window
    /\ ie_event' = EventAfterInterrupt(
            cpu, interrupt(cpu, half_interrupt(facade.top_half), oc), ie_event)
    /\ pre' = Snapshot
    /\ UNCHANGED <<rom, oc, cycles, step_cycles, ticks_total, budgets, steps, video>>

\* either facade on the programs that draw
InitVideo == InitWithIo(VideoRoms, {SpaceInvadersIO_new, invaders_new})

NextVideo ==
    \/ \E dt \in VideoTicks : StepBeginVideo(dt)
    \/ Emulate
    \/ StepEnd
    \/ ScreenBegin
    \/ ScreenByte
    \/ ScreenEnd
    \/ FrameBegin
    \/ HalfEmulate
    \/ HalfScreenBegin
    \/ HalfScreenByte
    \/ \E down \in FrameSnapshots : HalfEnd(down)

SpecVideo == InitVideo /\ [][NextVideo]_vars

\* the frame step of invaders.rs on a program that polls the input ports,
\* with the keys the host holds down at the end of each frame
InitInput == InitWithIo({InputRom}, {invaders_new})

NextInput ==
    \/ FrameBegin
    \/ HalfEmulate
    \/ HalfScreenBegin
    \/ HalfScreenByte
    \/ \E down \in Snapshots : HalfEnd(down)

SpecInput == InitInput /\ [][NextInput]_vars

\* ------------------------------------------------------------------------
\* One program for each of the 256 opcodes
\* ------------------------------------------------------------------------
\* 0: LXI SP,0x2400; 3: LXI B,0x2102; 6: LXI D,0x2204; 9: LXI H,0x2306;
\* 12: MVI M,0x77; 14: MVI A,0x5A; 16: the opcode with the operand bytes
\* 0x10 0x21; 19: HLT
OpRom(opcode) ==
    LXI_SP(VRAM_START) \o LXI_B(8450) \o LXI_D(8708) \o LXI_H(8966)
    \o MVI_M(119) \o MVI_A(90) \o <<opcode, 16, 33>> \o HLT

OpRoms == {OpRom(opcode) : opcode \in 0..255}

\* LXI B/D/H,0xABCD, then a write of each half of each pair
PairRom ==
    LXI_B(43981) \o LXI_D(43981) \o LXI_H(43981)
    \o MVI_B(18) \o MVI_C(52) \o <<22, 86>> \o <<30, 120>>
    \o <<38, 154>> \o <<46, 188>> \o <<4>> \o <<13>> \o HLT

\* dt of 20.03 and 200.3 cycles
OpTicks == {42, 420}

\* MVI A,x; ADI y; MVI B,y; ADD B; ADD A; HLT
AddRom(x, y) ==
    MVI_A(x) \o ADI(y) \o MVI_B(y) \o <<128>> \o <<135>> \o HLT

AddRoms == {AddRom(x, y) : x \in AluValues, y \in AluValues}

\* MVI A,x; CPI y; MVI B,y; CMP B; CMP A; HLT
CmpRom(x, y) ==
    MVI_A(x) \o CPI(y) \o MVI_B(y) \o <<184>> \o <<191>> \o HLT

CmpRoms == {CmpRom(x, y) : x \in AluValues, y \in AluValues}

\* MVI A,x; STC; RAL; RAR; RAR; RAL; HLT
RotRom(x) == MVI_A(x) \o STC \o <<23>> \o <<31>> \o <<31>> \o <<23>> \o HLT

RotRoms == {RotRom(x) : x \in AluValues}

\* STC; LXI H,x; LXI B,y; LXI D,y; DAD B or DAD D or DAD H; HLT
DadRom(x, y, opcode) ==
    STC \o LXI_H(x) \o LXI_B(y) \o LXI_D(y) \o <<opcode>> \o HLT

DadRoms ==
    {DadRom(x, y, opcode) :
        x \in {1, 32768, 65535}, y \in {1, 32768, 65535},
        opcode \in {9, 25, 41}}

\* LXI rp,x; INX rp; HLT for rp = B, D, H (lxi_op is the opcode of LXI rp,
\* the opcode of INX rp lies 2 above)
InxRom(lxi_op, x) == <<lxi_op, Lo(x), Hi(x)>> \o <<lxi_op + 2>> \o HLT

\* LXI SP,sp; LXI B,0x1234; PUSH B; POP D; HLT
PushPopRom(sp) == LXI_SP(sp) \o LXI_B(4660) \o <<197>> \o <<209>> \o HLT

WrapRoms ==
    {InxRom(lxi_op, x) : lxi_op \in {1, 17, 33}, x \in {255, 65534, 65535}}
    \cup {PushPopRom(sp) : sp \in {0, 1, 2, 9216, 16384}}

InitOps ==
    InitWith(OpRoms \cup {PairRom} \cup AddRoms \cup CmpRoms \cup RotRoms
             \cup DadRoms \cup WrapRoms)

NextOps ==
    \/ \E dt \in OpTicks : StepBegin(dt)
    \/ Emulate
    \/ StepEnd

SpecOps == InitOps /\ [][NextOps]_vars

\* ------------------------------------------------------------------------
\* The stand-alone emulator of src/src/main.rs (its own State8080 and loop)
\* ------------------------------------------------------------------------
\* `for (i, &b) in rom.iter().enumerate() { memory[i] = b; }`: [memory,
\* trap].  The index leaves the array at i = 16384, after the bytes before
\* it are copied
main_load(image) ==
    LET nz == {i \in 1..Len(image) : image[i] # 0 /\ InBounds(i - 1)}
    IN  [memory |-> [x \in {i - 1 : i \in nz} |-> image[x + 1]],
         trap |-> IF Len(image) > MEMORY_SIZE THEN "OutOfBounds" ELSE "none"]

\* State8080::new of main.rs: [s, trap]; registers are separate bytes, sp and pc are
\* usize, interrupts start enabled
main_new(image) ==
    LET loaded == main_load(image)
    IN  [s |-> [a |-> 0, b |-> 0, c |-> 0, d |-> 0, e |-> 0, h |-> 0,
                l |-> 0, sp |-> 0, pc |-> 0,
                memory |-> loaded.memory,
                flags |-> FlagsZero,
                interrupts_enabled |-> TRUE],
         trap |-> loaded.trap]

\* State8080::address: memory[pc + 2] is indexed first, then memory[pc + 1]
main_address_trap(s) ==
    IF InBounds(s.pc + 2) /\ InBounds(s.pc + 1) THEN "none" ELSE "OutOfBounds"

main_address(s) ==
    Mem(s.memory, s.pc + 2) * 256 + Mem(s.memory, s.pc + 1)

\* State8080::jmp of main.rs
main_jmp(s) ==
    IF main_address_trap(s) # "none" THEN Fail(s, main_address_trap(s))
    ELSE Ok([s EXCEPT !.pc = main_address(s)])

\* the opcodes that have an arm in emulate of main.rs
MainImplemented ==
    {0, 1, 2, 3, 4, 5, 6, 7, 9, 10, 12, 13, 14, 15, 17, 19, 22, 23, 25, 26,
     30, 31, 32, 33, 35, 38, 41, 46, 47, 49, 50, 54, 55, 58, 62, 63, 86,
     94, 102, 111, 118, 119, 122, 123, 124, 126, 128, 129, 130, 131, 132,
     133, 134, 135, 160, 161, 162, 163, 164, 165, 166, 167, 168, 169, 170,
     171, 172, 173, 174, 175, 176, 177, 178, 179, 180, 181, 182, 183, 184,
     185, 186, 187, 188, 189, 190, 191, 193, 194, 195, 197, 198, 201, 202,
     205, 209, 210, 211, 213, 218, 219, 225, 226, 229, 230, 234, 235, 241,
     242, 243, 245, 250, 251, 254}

\* State8080::hl of main.rs
main_hl(s) == s.h * 256 + s.l

\* State8080::bc of main.rs
main_bc(s) == s.b * 256 + s.c

\* State8080::de of main.rs
main_de(s) == s.d * 256 + s.e

\* State8080::set_hl of main.rs
main_set_hl(s, val) == [s EXCEPT !.h = val \div 256, !.l = val % 256]

\* `self.memory[address]` read: [value, trap]
main_byte(s, address) ==
    IF InBounds(address)
    THEN [value |-> Mem(s.memory, address), trap |-> "none"]
    ELSE [value |-> 0, trap |-> "OutOfBounds"]

\* `self.memory[address] = value`: a plain array store, ROM included
main_store(s, address, value) ==
    IF InBounds(address)
    THEN Ok([s EXCEPT !.memory = MemSet(@, address, value)])
    ELSE Fail(s, "OutOfBounds")

\* the fields of the registers in the order of the opcode's three bits
\* (6 is the memory byte at HL)
MainRegs == <<"b", "c", "d", "e", "h", "l", "m", "a">>

\* the operand of an arm by its three bits: [value, trap]
main_get(s, k) ==
    IF k = 6 THEN main_byte(s, main_hl(s))
    ELSE [value |-> s[MainRegs[k + 1]], trap |-> "none"]

\* the destination of an arm by its three bits: [s, trap]
main_put(s, k, value) ==
    IF k = 6 THEN main_store(s, main_hl(s), value)
    ELSE Ok([s EXCEPT ![MainRegs[k + 1]] = value])

\* the arms `0x09`, `0x19`, `0x29` of emulate: `self.set_hl(<u16 sum>)`, a
\* u16 addition (a panic with overflow checks, a wrap without); no flag is
\* written
main_dad(s, sum, checks) ==
    IF sum > U16 - 1
    THEN (IF checks THEN Fail(s, "Overflow")
          ELSE Ok(main_set_hl(s, AsU16(sum))))
    ELSE Ok(main_set_hl(s, sum))

\* the arms `0x03`, `0x13`, `0x23` of emulate: `self.set_bc(self.bc() + 1)`,
\* a u16 addition as in main_dad
main_inx(s, op_code, checks) ==
    LET val == CASE op_code = 3 -> main_bc(s)
                 [] op_code = 19 -> main_de(s)
                 [] OTHER -> main_hl(s)
        sum == AsU16(val + 1)
    IN  IF val + 1 > U16 - 1 /\ checks THEN Fail(s, "Overflow")
        ELSE Ok(CASE op_code = 3 ->
                        [s EXCEPT !.b = sum \div 256, !.c = sum % 256]
                  [] op_code = 19 ->
                        [s EXCEPT !.d = sum \div 256, !.e = sum % 256]
                  [] OTHER -> main_set_hl(s, sum))

\* the arms `0x01`, `0x11`, `0x21` of emulate: memory[pc + 2] into the
\* first and memory[pc + 1] into the second register of the pair
main_lxi(s, op_code) ==
    IF main_address_trap(s) # "none" THEN Fail(s, main_address_trap(s))
    ELSE LET hi == Mem(s.memory, s.pc + 2)
             lo == Mem(s.memory, s.pc + 1)
         IN  Ok(CASE op_code = 1 -> [s EXCEPT !.b = hi, !.c = lo]
                  [] op_code = 17 -> [s EXCEPT !.d = hi, !.e = lo]
                  [] OTHER -> [s EXCEPT !.h = hi, !.l = lo])

\* the arms `0x04`, `0x0c` (by = 1) and `0x05`, `0x0d` (by = 255):
\* wrapping_add / wrapping_sub of 1, then set_flags
main_inr(s, op_code, by) ==
    LET name == IF op_code \in {4, 5} THEN "b" ELSE "c"
        value == AsU8(s[name] + by)
    IN  set_flags([s EXCEPT ![name] = value], value)

\* the arms `0x07`, `0x0f`, `0x17`, `0x1f`: RLC, RRC, RAL, RAR
main_rotate(s, op_code) ==
    LET bit0 == Bit(s.a, 0)
        bit7 == Bit(s.a, 7)
        old == IF s.flags.carry THEN 1 ELSE 0
    IN  CASE op_code = 7 ->
                [s EXCEPT !.a = AsU8(s.a * 2) + bit7,
                          !.flags = [@ EXCEPT !.carry = (bit7 # 0)]]
          [] op_code = 15 ->
                [s EXCEPT !.a = (s.a \div 2) + bit0 * 128,
                          !.flags = [@ EXCEPT !.carry = (bit0 # 0)]]
          [] op_code = 23 ->
                [s EXCEPT !.a = AsU8(s.a * 2) + old,
                          !.flags = [@ EXCEPT !.carry = (bit7 # 0)]]
          [] OTHER ->
                [s EXCEPT !.a = (s.a \div 2) + bit7 * 128,
                          !.flags = [@ EXCEPT !.carry = (bit0 # 0)]]

\* add, and, xor, or, cmp of main.rs (the text of those of i8080.rs) by
\* the arm: `0x80`.. ADD, `0xa0`.. ANA, `0xa8`.. XRA, `0xb0`.. ORA,
\* `0xb8`.. CMP, and ADI, ANI, CPI
main_alu(s, op_code, operand) ==
    CASE op_code \in (128..135) \cup {198} -> add(s, operand)
      [] op_code \in (160..167) \cup {230} -> and(s, operand)
      [] op_code \in 168..175 -> xor(s, operand)
      [] op_code \in 176..183 -> or(s, operand)
      [] OTHER -> cmp(s, operand)

\* the arms PUSH and the stores of CALL: `self.memory[self.sp - 1] = hi;
\* self.memory[self.sp - 2] = lo; self.sp -= 2`.  `self.sp - 1` and
\* `self.sp - 2` are usize subtractions (a panic with overflow checks, an
\* index far outside the array without), the stores are plain array stores
main_push(s, hi, lo, checks) ==
    LET s1 == [s EXCEPT !.memory = MemSet(@, s.sp - 1, hi)]
        s2 == [s1 EXCEPT !.memory = MemSet(@, s.sp - 2, lo)]
    IN  IF s.sp - 1 < 0 THEN Fail(s, IF checks THEN "Overflow" ELSE "OutOfBounds")
        ELSE IF ~InBounds(s.sp - 1) THEN Fail(s, "OutOfBounds")
        ELSE IF s.sp - 2 < 0
        THEN Fail(s1, IF checks THEN "Overflow" ELSE "OutOfBounds")
        ELSE Ok([s2 EXCEPT !.sp = s.sp - 2])

\* the arms POP: memory[sp + 1] into the first and memory[sp] into the
\* second register (POP PSW: into A and set_psw), then `self.sp += 2`
main_pop(s, op_code) ==
    IF ~InBounds(s.sp + 1) THEN Fail(s, "OutOfBounds")
    ELSE LET hi == Mem(s.memory, s.sp + 1)
             lo == Mem(s.memory, s.sp)
             s1 == [s EXCEPT !.sp = s.sp + 2]
         IN  Ok(CASE op_code = 193 -> [s1 EXCEPT !.b = hi, !.c = lo]
                  [] op_code = 209 -> [s1 EXCEPT !.d = hi, !.e = lo]
                  [] op_code = 225 -> [s1 EXCEPT !.h = hi, !.l = lo]
                  [] OTHER -> [s1 EXCEPT !.a = hi, !.flags = set_psw(lo)])

\* the arm `0xcd` of emulate: the return address pc + 2 is stored, then
\* `self.pc = self.address() as usize`
main_call(s, checks) ==
    LET ret_addr == s.pc + 2
        p == main_push(s, AsU8(ret_addr \div 256), AsU8(ret_addr), checks)
    IN  IF p.trap # "none" THEN p
        ELSE IF main_address_trap(p.s) # "none"
        THEN Fail(p.s, main_address_trap(p.s))
        ELSE Ok([p.s EXCEPT !.pc = main_address(p.s)])

\* the arm `0xc9` of emulate (before the `self.pc +=` of its result 1)
main_ret(s) ==
    IF ~InBounds(s.sp) \/ ~InBounds(s.sp + 1) THEN Fail(s, "OutOfBounds")
    ELSE Ok([s EXCEPT !.pc = Mem(s.memory, s.sp)
                              + Mem(s.memory, s.sp + 1) * 256,
                      !.sp = s.sp + 2])

\* the condition of the arms `0xc2`, `0xca`, `0xd2`, `0xda`, `0xe2`, `0xea`,
\* `0xf2`, `0xfa`
main_condition(s, op_code) ==
    CASE op_code = 194 -> ~s.flags.zero
      [] op_code = 202 -> s.flags.zero
      [] op_code = 210 -> ~s.flags.carry
      [] op_code = 218 -> s.flags.carry
      [] op_code = 226 -> ~s.flags.even_parity
      [] op_code = 234 -> s.flags.even_parity
      [] op_code = 242 -> ~s.flags.sign_negative
      [] OTHER -> s.flags.sign_negative

\* `self.pc += <the arm's result>`
main_advance(r, n) ==
    IF r.trap # "none" THEN r ELSE Ok([r.s EXCEPT !.pc = @ + n])

\* an arm that reads the byte `rd` ([value, trap]) and goes on with `r`
main_after(s, rd, r) == IF rd.trap # "none" THEN Fail(s, rd.trap) ELSE r

\* the opcodes whose arm of decode prints memory[pc + 2] and memory[pc + 1]
DecodeReads3 ==
    {34, 42, 50, 58, 194, 195, 196, 202, 204, 205, 210, 212, 218, 220, 226,
     228, 236, 250, 252}

\* the opcodes without an arm in decode ("Unknown opcode", process::exit)
DecodeUnknown ==
    {45, 59, 199, 203, 206, 207, 215, 217, 223, 231, 232, 234, 237, 239,
     242, 243, 244, 249, 253}

\* decode(&state.memory, state.pc), called by main after every emulate and
\* by the default arm of emulate
decode_trap(memory, pc) ==
    IF ~InBounds(pc) THEN "OutOfBounds"
    ELSE IF Mem(memory, pc) \in DecodeUnknown THEN "Unimplemented"
    ELSE IF Mem(memory, pc) \in DecodeReads3 /\ ~InBounds(pc + 2)
    THEN "OutOfBounds"
    ELSE "none"

\* State8080::emulate of main.rs: [s, trap]
main_emulate(s, checks) ==
    IF ~InBounds(s.pc) THEN Fail(s, "OutOfBounds")
    ELSE
    LET op_code == Mem(s.memory, s.pc)
        src == main_get(s, op_code % 8)
        dst == (op_code \div 8) % 8
        d8 == main_byte(s, s.pc + 1)
        adr == main_byte(s, main_address(s))
    IN  CASE op_code \in {0, 32} -> main_advance(Ok(s), 1)
          [] op_code \in {1, 17, 33} -> main_advance(main_lxi(s, op_code), 3)
          [] op_code = 2 ->
                main_advance(main_store(s, main_bc(s), s.a), 1)
          [] op_code \in {3, 19, 35} ->
                main_advance(main_inx(s, op_code, checks), 1)
          [] op_code \in {4, 12} ->
                main_advance(Ok(main_inr(s, op_code, 1)), 1)
          [] op_code \in {5, 13} ->
                main_advance(Ok(main_inr(s, op_code, 255)), 1)
          [] op_code \in {6, 14, 22, 30, 38, 46, 54, 62} ->
                main_advance(
                    main_after(s, d8, main_put(s, dst, d8.value)), 2)
          [] op_code \in {7, 15, 23, 31} ->
                main_advance(Ok(main_rotate(s, op_code)), 1)
          [] op_code = 9 ->
                main_advance(main_dad(s, main_hl(s) + main_bc(s), checks), 1)
          [] op_code = 25 ->
                main_advance(main_dad(s, main_hl(s) + main_de(s), checks), 1)
          [] op_code = 41 ->
                main_advance(main_dad(s, 2 * main_hl(s), checks), 1)
          [] op_code = 10 ->
                LET rd == main_byte(s, main_bc(s))
                IN  main_advance(
                        main_after(s, rd, Ok([s EXCEPT !.a = rd.value])), 1)
          [] op_code = 26 ->
                LET rd == main_byte(s, main_de(s))
                IN  main_advance(
                        main_after(s, rd, Ok([s EXCEPT !.a = rd.value])), 1)
          [] op_code = 47 ->
                main_advance(Ok([s EXCEPT !.a = BitNot8(s.a)]), 1)
          [] op_code = 49 ->
                IF main_address_trap(s) # "none"
                THEN Fail(s, main_address_trap(s))
                ELSE main_advance(Ok([s EXCEPT !.sp = main_address(s)]), 3)
          [] op_code = 50 ->
                IF main_address_trap(s) # "none"
                THEN Fail(s, main_address_trap(s))
                ELSE main_advance(main_store(s, main_address(s), s.a), 3)
          [] op_code = 58 ->
                IF main_address_trap(s) # "none"
                THEN Fail(s, main_address_trap(s))
                ELSE main_advance(
                        main_after(s, adr, Ok([s EXCEPT !.a = adr.value])), 3)
          [] op_code = 55 ->
                main_advance(
                    Ok([s EXCEPT !.flags = [@ EXCEPT !.carry = TRUE]]), 1)
          [] op_code = 63 ->
                main_advance(
                    Ok([s EXCEPT !.flags = [@ EXCEPT !.carry = ~@]]), 1)
          [] op_code \in {86, 94, 102, 111, 119, 122, 123, 124, 126} ->
                main_advance(
                    main_after(s, src, main_put(s, dst, src.value)), 1)
          [] op_code = 118 -> Fail(s, "Halt")
          [] op_code \in (128..135) \cup (160..191) ->
                main_advance(
                    main_after(s, src, Ok(main_alu(s, op_code, src.value))),
                    1)
          [] op_code \in {198, 230, 254} ->
                main_advance(
                    main_after(s, d8, Ok(main_alu(s, op_code, d8.value))), 2)
          [] op_code \in {193, 209, 225, 241} ->
                main_advance(main_pop(s, op_code), 1)
          [] op_code = 197 ->
                main_advance(main_push(s, s.b, s.c, checks), 1)
          [] op_code = 213 ->
                main_advance(main_push(s, s.d, s.e, checks), 1)
          [] op_code = 229 ->
                main_advance(main_push(s, s.h, s.l, checks), 1)
          [] op_code = 245 ->
                main_advance(main_push(s, s.a, psw(s.flags), checks), 1)
          [] op_code \in {194, 202, 210, 218, 226, 234, 242, 250} ->
                IF main_condition(s, op_code)
                THEN main_advance(main_jmp(s), 0)
                ELSE main_advance(Ok(s), 3)
          [] op_code = 195 -> main_advance(main_jmp(s), 0)
          [] op_code = 201 -> main_advance(main_ret(s), 1)
          [] op_code = 205 -> main_advance(main_call(s, checks), 0)
          [] op_code \in {211, 219} -> main_advance(Ok(s), 2)
          [] op_code = 235 ->
                main_advance(Ok([s EXCEPT !.d = s.h, !.e = s.l,
                                          !.h = s.d, !.l = s.e]), 1)
          [] op_code = 243 ->
                main_advance(Ok([s EXCEPT !.interrupts_enabled = FALSE]), 1)
          [] op_code = 251 ->
                main_advance(Ok([s EXCEPT !.interrupts_enabled = TRUE]), 1)
          [] OTHER ->
                Fail(s, IF decode_trap(s.memory, s.pc) = "OutOfBounds"
                        THEN "OutOfBounds" ELSE "Unimplemented")

\* the largest i32
I32_MAX == 2147483647

\* `i += 1` of main, an i32: [value, trap]
main_count(count, checks) ==
    IF count = I32_MAX
    THEN (IF checks THEN [value |-> count, trap |-> "Overflow"]
          ELSE [value |-> (0 - I32_MAX) - 1, trap |-> "none"])
    ELSE [value |-> count + 1, trap |-> "none"]

\* calls nested `depth` deep under a stack at sp, k NOPs before the first:
\* 0: LXI SP,sp; 3: NOP*k; p: CALL p+4; p+3: HLT; p+4: [CALL p+8;] RET;
\* p+8: RET
MainCallRom(sp, k, depth) ==
    LXI_SP(sp) \o Pad(k) \o CALL(k + 7) \o HLT
    \o (IF depth = 2 THEN CALL(k + 11) \o RET \o RET ELSE RET)

\* a jump out of the array: 0: NOP*k; k: JMP 0x4000
MainEdgeRom(k) == Pad(k) \o JMP(MEMORY_SIZE)

MainPads == 0..2

\* LXI H,x; LXI B,y; LXI D,y; DAD B or DAD D or DAD H; HLT
MainDadRom(x, y, opcode) ==
    LXI_H(x) \o LXI_B(y) \o LXI_D(y) \o <<opcode>> \o HLT

DadValues == {1, 32768, 65535}

\* the iterations of the loop of main that are followed: the empty image
\* runs its 16384 NOPs to the end of the array
MaxMainLoops == 16400

MainRoms ==
    {MainCallRom(sp, k, depth) :
        sp \in StackPointers \cup {1}, k \in MainPads, depth \in {1, 2}}
    \cup {MainEdgeRom(k) : k \in MainPads}
    \cup {CallRom(9216), <<>>, JMP(0)}
    \cup {AluRom(x, y) : x \in {0, 7, 255}, y \in {1, 255}}
    \cup {StackRom(sp, 4660, 43981) : sp \in {9216, 1, 0}}
    \cup {IntRom(9216, TRUE), IoRom}
    \cup {EdgeRom(k) : k \in 0..5}
    \cup {MainDadRom(x, y, opcode) :
            x \in DadValues, y \in DadValues, opcode \in {9, 25, 41}}
    \cup {LongRom}

\* main: `let mut state = State8080::new(rom)`
InitMain ==
    /\ rom \in MainRoms
    /\ oc \in BOOLEAN
    /\ cpu = main_new(rom).s
    /\ io = SpaceInvadersIO_new
    /\ cycles = 0
    /\ status = IF main_new(rom).trap = "none"
               THEN "Running" ELSE main_new(rom).trap
    /\ pos = "idle"
    /\ step_cycles = 0
    /\ spent_cycles = 0
    /\ pre = [cpu |-> main_new(rom).s, io |-> SpaceInvadersIO_new,
              cycles |-> 0, frames |-> <<>>]
    /\ last = NoOp
    /\ frames = <<>>
    /\ ticks_total = 0
    /\ budgets = 0
    /\ ie_event = "construction"
    /\ steps = 0
    /\ window = NoWindow
    /\ video = NoVideo
    /\ facade = NoFacade

\* the 16-bit value a push instruction of main.rs at s1.pc pushes
MainPushedValue(s1) ==
    LET op == Mem(s1.memory, s1.pc)
    IN  CASE op = 197 -> main_bc(s1)
          [] op = 213 -> main_de(s1)
          [] op = 229 -> main_hl(s1)
          [] op = 245 -> s1.a * 256 + psw(s1.flags)
          [] OTHER -> s1.pc + 2

\* one iteration of `while state.pc < state.memory.len()` of main:
\* `state.emulate()`, the prints, `i += 1` (steps is the counter i), and
\* `decode(&state.memory, state.pc)` on the next instruction
MainEmulate ==
    /\ status = "Running"
    /\ InBounds(cpu.pc)
    /\ steps < MaxMainLoops
    /\ LET r == main_emulate(cpu, oc)
           n == main_count(steps, oc)
           t == IF r.trap # "none" THEN r.trap
                ELSE IF n.trap # "none" THEN n.trap
                ELSE decode_trap(r.s.memory, r.s.pc)
       IN  /\ cpu' = r.s
           /\ steps' = IF r.trap = "none" THEN n.value ELSE steps
           /\ status' = IF t = "none" THEN "Running" ELSE t
           /\ last' = [op |-> "emulate", opcode |-> Mem(cpu.memory, cpu.pc),
                       n |-> 0, cycles |-> 0, cost |-> 0, trap |-> r.trap]
           /\ frames' = IF r.trap = "none"
                        THEN NextFrames(frames, cpu, r.s, StackKind(cpu, r.s),
                                        Mem(cpu.memory, cpu.pc),
                                        MainPushedValue(cpu))
                        ELSE Mark(frames, cpu.memory, r.s.memory)
           /\ ie_event' = EventAfterEmulate(cpu, r, ie_event)
    /\ pre' = Snapshot
    /\ UNCHANGED <<rom, oc, io, cycles, pos, step_cycles, spent_cycles,
                   ticks_total, budgets, window, video, facade>>

NextMain == MainEmulate

SpecMain == InitMain /\ [][NextMain]_vars

\* ------------------------------------------------------------------------
\* Properties
\* ------------------------------------------------------------------------
\* the last action was an emulate that fetched `ops` and completed
Ran(ops) ==
    /\ last.op = "emulate"
    /\ last.trap = "none"
    /\ last.opcode \in ops

\* the last action was an emulate that fetched `ops` (completed or not)
Tried(ops) ==
    /\ last.op = "emulate"
    /\ InBounds(pre.cpu.pc)
    /\ last.opcode \in ops

\* address a is a RAM cell of the array
InRam(a) == a >= ROM_END /\ a < MEMORY_SIZE

\* the two bytes of the stack slot below sp are RAM cells of the array
SlotInRam(sp) == sp >= ROM_END + 2 /\ sp <= MEMORY_SIZE

\* C1: in every reachable state every memory byte in [0x0000, 0x2000)
\* equals the byte the ROM image put there at construction
C1_RomNeverChanges ==
    \A x \in (DOMAIN cpu.memory) \cup (DOMAIN LoadRom(rom).memory) :
        x < ROM_END => Mem(cpu.memory, x) = Mem(LoadRom(rom).memory, x)

\* the address an instruction of StoreOps at s.pc writes first
StoreOps == {50, 2, 119, 54, 197, 213, 229, 245, 205}

StoreTarget(s) ==
    LET op == read_byte(s, s.pc)
    IN  CASE op = 50 -> read_bytes_immediate(s)
          [] op = 2 -> s.bc
          [] op \in {119, 54} -> s.hl
          [] OTHER -> AsU16(s.sp - 2 + U16)

\* C2: executing STA, STAX, MOV M,*, MVI M,*, PUSH* or CALL when the
\* address it would write is below 0x2000 is a fatal trap: the emulation
\* stops at that instruction and the addressed byte is not modified
C2_RomWriteTraps ==
    (Tried(StoreOps) /\ StoreTarget(pre.cpu) < ROM_END)
        => /\ status # "Running"
           /\ cpu.pc = pre.cpu.pc
           /\ Mem(cpu.memory, StoreTarget(pre.cpu))
                = Mem(pre.cpu.memory, StoreTarget(pre.cpu))

\* what a serviced interrupt n leaves behind
Serviced ==
    /\ status = "Running"
    /\ Mem(cpu.memory, AsU16(pre.cpu.sp - 2 + U16)) = Lo(pre.cpu.pc)
    /\ Mem(cpu.memory, AsU16(pre.cpu.sp - 1 + U16)) = Hi(pre.cpu.pc)
    /\ cpu.sp = AsU16(pre.cpu.sp - 2 + U16)
    /\ cpu.pc = 8 * last.n
    /\ ~cpu.interrupts_enabled
    /\ pos = "idle"

\* C3 as stated: interrupt(n) called while interrupts_enabled is true
\* pushes the current PC (low byte at SP-2, high byte at SP-1, SP decreased
\* by 2), sets PC to 8*n and clears interrupts_enabled, in one step between
\* two instructions
C3_InterruptServiced_Original ==
    (last.op = "interrupt" /\ pre.cpu.interrupts_enabled) => Serviced

\* the return address of an interrupt is on the stack
Pushed ==
    /\ Mem(cpu.memory, AsU16(pre.cpu.sp - 2 + U16)) = Lo(pre.cpu.pc)
    /\ Mem(cpu.memory, AsU16(pre.cpu.sp - 1 + U16)) = Hi(pre.cpu.pc)
    /\ cpu.sp = AsU16(pre.cpu.sp - 2 + U16)

\* C3 as amended: it does so when SP-2 and SP-1 are both RAM addresses and
\* 8*n fits the 16-bit PC.  When the stack slot is not RAM the push is a
\* fatal trap that leaves PC, SP and interrupts_enabled as they were.  When
\* 8*n is above 65535 the PC is pushed and then either the product is a
\* fatal trap that leaves PC and interrupts_enabled as they were (a build
\* with overflow checks) or PC becomes 8*n modulo 65536 and
\* interrupts_enabled false (a build without)
C3_InterruptServiced ==
    (last.op = "interrupt" /\ pre.cpu.interrupts_enabled)
        => IF ~SlotInRam(pre.cpu.sp)
           THEN /\ status # "Running"
                /\ cpu.pc = pre.cpu.pc
                /\ cpu.sp = pre.cpu.sp
                /\ cpu.interrupts_enabled
           ELSE IF 8 * last.n < U16
           THEN Serviced
           ELSE /\ Pushed
                /\ pos = "idle"
                /\ IF oc
                   THEN /\ status # "Running"
                        /\ cpu.pc = pre.cpu.pc
                        /\ cpu.interrupts_enabled
                   ELSE /\ status = "Running"
                        /\ cpu.pc = (8 * last.n) % U16
                        /\ ~cpu.interrupts_enabled

\* an interrupt whose 8*n is above 65535 was raised with interrupts enabled
\* and the stack in RAM, in a build with overflow checks
C3_WitnessOverflow ==
    /\ last.op = "interrupt"
    /\ pre.cpu.interrupts_enabled
    /\ SlotInRam(pre.cpu.sp)
    /\ last.n = 8193
    /\ oc
    /\ status = "Overflow"
    /\ cpu.sp = pre.cpu.sp - 2

\* the same in a build without overflow checks
C3_WitnessWrapped ==
    /\ last.op = "interrupt"
    /\ pre.cpu.interrupts_enabled
    /\ SlotInRam(pre.cpu.sp)
    /\ last.n = 8193
    /\ ~oc
    /\ cpu.pc = 8

C3_Witness ==
    /\ last.op = "interrupt"
    /\ pre.cpu.interrupts_enabled
    /\ SlotInRam(pre.cpu.sp)
    /\ last.n = 2
    /\ cpu.pc = 16
    /\ pre.cpu.pc >= 36
    /\ Mem(cpu.memory, cpu.sp) = pre.cpu.pc

\* C4: interrupt(n) called while interrupts_enabled is false is a no-op:
\* PC, SP, registers, flags, memory, interrupts_enabled, cycle_debt and
\* the cycle total are unchanged
C4_InterruptIgnored ==
    (last.op = "interrupt" /\ ~pre.cpu.interrupts_enabled)
        => /\ cpu = pre.cpu
           /\ cycles = pre.cycles
           /\ io = pre.io
           /\ status = "Running"

C4_Witness ==
    /\ last.op = "interrupt"
    /\ ~pre.cpu.interrupts_enabled
    /\ cpu.sp = 9216
    /\ cycles > 0

\* the frame on top of the shadow stack before the last action
TopFrame == pre.frames[Len(pre.frames)]

\* the last pop met the stack balanced since the push of the top frame:
\* SP was back at the pushed slot and the slot still held what was pushed
Balanced ==
    /\ Len(pre.frames) > 0
    /\ TopFrame.intact
    /\ pre.cpu.sp = TopFrame.s - 2

\* C5: a CALL at p with SP = s and s-2 in RAM stores the return address
\* p+3 little-endian at [s-2, s-1] and leaves SP = s-2; a later RET
\* reached with the stack balanced leaves PC = p+3 and SP = s
C5_CallReturnRoundTrip ==
    /\ (Ran({205}) /\ InRam(pre.cpu.sp - 2))
        => /\ cpu.sp = pre.cpu.sp - 2
           /\ Mem(cpu.memory, pre.cpu.sp - 2) = Lo(pre.cpu.pc + 3)
           /\ Mem(cpu.memory, pre.cpu.sp - 1) = Hi(pre.cpu.pc + 3)
    /\ (Ran({201}) /\ Balanced /\ TopFrame.by = 205)
        => /\ cpu.pc = TopFrame.at + 3
           /\ cpu.sp = TopFrame.s

PushPairOps == {197, 213, 229, 245}

PopPairOps == {193, 209, 225, 241}

\* the register pair a POP of opcode op loads (for POP PSW: A and psw)
PoppedPair(s, op) ==
    CASE op = 193 -> s.bc
      [] op = 209 -> s.de
      [] op = 225 -> s.hl
      [] OTHER -> af(s)

\* a PUSH rp stored the pair little-endian at [SP-2, SP-1], decreased SP
\* by 2 and changed no register or flag
PushStored ==
    /\ status = "Running"
    /\ cpu.sp = pre.cpu.sp - 2
    /\ Mem(cpu.memory, pre.cpu.sp - 2) = Lo(PushedValue(pre.cpu))
    /\ Mem(cpu.memory, pre.cpu.sp - 1) = Hi(PushedValue(pre.cpu))
    /\ cpu.a = pre.cpu.a /\ cpu.flags = pre.cpu.flags
    /\ cpu.bc = pre.cpu.bc /\ cpu.de = pre.cpu.de
    /\ cpu.hl = pre.cpu.hl

\* a POP reached with the stack balanced loads the word of the most recent
\* push not yet popped and restores SP, so PUSH rp; POP rp leaves rp and SP
\* unchanged and values are popped in the reverse order of their pushes;
\* POP PSW after PUSH PSW restores A and all five flags
PopRestores ==
    /\ (Ran(PopPairOps) /\ Balanced)
        => /\ PoppedPair(cpu, last.opcode) = TopFrame.value
           /\ cpu.sp = TopFrame.s
           /\ frames = SubSeq(pre.frames, 1, Len(pre.frames) - 1)
    /\ (Ran({241}) /\ Balanced /\ TopFrame.by = 245)
        => /\ cpu.a = TopFrame.a
           /\ cpu.flags = TopFrame.flags

\* C6 as stated: for every SP with SP-2 in RAM, PUSH rp stores the pair
\* little-endian at [SP-2, SP-1] and decreases SP by 2, and the POP that
\* follows restores rp and SP; values are popped in the reverse order of
\* their pushes; POP PSW after PUSH PSW restores A and all five flags
C6_PushPopInverse_Original ==
    /\ (Tried(PushPairOps) /\ InRam(pre.cpu.sp - 2)) => PushStored
    /\ PopRestores

\* C6 as amended: it does so for every SP with SP-2 and SP-1 both in RAM
\* (0x2002 <= SP <= 0x4000).  With SP = 0x4001, where SP-2 is the last RAM
\* cell and SP-1 is past the array, PUSH rp is a fatal trap after the low
\* byte is stored at SP-2: SP and the registers keep their values and no
\* POP follows
C6_PushPopInverse ==
    /\ (Tried(PushPairOps) /\ SlotInRam(pre.cpu.sp)) => PushStored
    /\ (Tried(PushPairOps) /\ InRam(pre.cpu.sp - 2)
            /\ ~InRam(pre.cpu.sp - 1))
        => /\ status = "OutOfBounds"
           /\ last.trap = "OutOfBounds"
           /\ Mem(cpu.memory, pre.cpu.sp - 2) = Lo(PushedValue(pre.cpu))
           /\ cpu.sp = pre.cpu.sp /\ cpu.pc = pre.cpu.pc
           /\ cpu.a = pre.cpu.a /\ cpu.flags = pre.cpu.flags
           /\ cpu.bc = pre.cpu.bc /\ cpu.de = pre.cpu.de
           /\ cpu.hl = pre.cpu.hl
    /\ PopRestores

\* PUSH B with SP = 0x4001: the low byte is at 0x3FFF and the write of the
\* high byte at 0x4000 ended the run
C6_WitnessPastArray ==
    /\ Tried({197})
    /\ pre.cpu.sp = MEMORY_SIZE + 1
    /\ status = "OutOfBounds"
    /\ Mem(cpu.memory, MEMORY_SIZE - 1) = Lo(pre.cpu.bc)
    /\ Mem(pre.cpu.memory, MEMORY_SIZE - 1) # Lo(pre.cpu.bc)

\* POP PSW brought back the accumulator and the carry that XRA A had cleared
C6_Witness ==
    /\ Ran({241})
    /\ Balanced
    /\ TopFrame.by = 245
    /\ TopFrame.flags.carry /\ ~pre.cpu.flags.carry /\ cpu.flags.carry
    /\ TopFrame.a = 1 /\ pre.cpu.a = 0 /\ cpu.a = 1
    /\ Mem(cpu.memory, pre.cpu.sp) = psw(cpu.flags)
    /\ Mem(cpu.memory, pre.cpu.sp + 1) = 1

\* the instructions of emulate that leave their 8-bit result in A
AccResultOps == (128..135) \cup (160..183) \cup {198, 230}

\* CMP r and CPI
CmpOps == (184..191) \cup {254}

\* INR B, DCR B, INR C, DCR C, DCR M, DCR A
IncDecOps == {4, 5, 12, 13, 53, 61}

\* the register an opcode names in its low three bits, in state s
RegOf(s, i) ==
    CASE i = 0 -> b(s) [] i = 1 -> c(s) [] i = 2 -> d(s)
      [] i = 3 -> e(s) [] i = 4 -> h(s) [] i = 5 -> l(s)
      [] i = 6 -> m(s) [] OTHER -> s.a

\* the 8-bit result of the last instruction, read from the registers
Result8 ==
    CASE last.opcode \in {4, 5} -> b(cpu)
      [] last.opcode \in {12, 13} -> c(cpu)
      [] last.opcode = 53 -> m(cpu)
      [] last.opcode = 254 ->
            AsU8(pre.cpu.a - read_byte_immediate(pre.cpu) + U8)
      [] last.opcode \in 184..191 ->
            AsU8(pre.cpu.a - RegOf(pre.cpu, last.opcode % 8) + U8)
      [] OTHER -> cpu.a

\* C7: after every arithmetic, logical, compare, INR or DCR instruction
\* with 8-bit result r, the P flag is set iff the number of 1 bits of r
\* is even
C7_ParityEven ==
    Ran(AccResultOps \cup CmpOps \cup IncDecOps)
        => (cpu.flags.even_parity <=> PopCount(Result8) % 2 = 0)

\* C8: INR and DCR set Z, S and P from the 8-bit result and leave CY as it
\* was before the instruction
C8_IncDecKeepCarry ==
    Ran(IncDecOps)
        => /\ cpu.flags.carry = pre.cpu.flags.carry
           /\ cpu.flags.zero <=> Result8 = 0
           /\ cpu.flags.sign_negative <=> Bit(Result8, 7) = 1
           /\ cpu.flags.even_parity <=> PopCount(Result8) % 2 = 0

\* C9: after any sequence of step(dt) calls on a machine that has not
\* trapped, with T the sum of the dt, the total of the cycles returned
\* differs from 2,000,000 * T by at most the cycle cost of one instruction
\* (both sides scaled by the ticks per second)
C9_CycleRate ==
    (pos = "idle" /\ status = "Running")
        => /\ cycles * DT_DEN - FREQ * ticks_total <= MaxInstrCost * DT_DEN
           /\ FREQ * ticks_total - cycles * DT_DEN <= MaxInstrCost * DT_DEN

\* the budget the step in progress (or just ended) was given, as a number
StepBudget(debt) == budget(last.n) - debt

\* C10: step(dt) with budget b = floor(2,000,000 * dt) - cycle_debt runs
\* whole instructions exactly while the cycles spent s are below b, then
\* returns s and stores the overshoot s - b as the new cycle_debt, which is
\* less than the cost of the last instruction executed
C10_StepBudget ==
    /\ last.op = "step_begin" => status = "Running"
    /\ (pos = "stepping" /\ status = "Running")
        => (loop_continues(spent_cycles, step_cycles)
                <=> spent_cycles < StepBudget(cpu.cycle_debt))
    /\ last.op = "step_end"
        => /\ last.cycles = spent_cycles
           /\ cycles = pre.cycles + spent_cycles
           /\ spent_cycles >= StepBudget(pre.cpu.cycle_debt)
           /\ cpu.cycle_debt = spent_cycles - StepBudget(pre.cpu.cycle_debt)
           /\ last.cost > 0 => cpu.cycle_debt < last.cost

\* the instructions of emulate that the opcode table of C11 lists
JccOps == {194, 202, 210, 218, 226, 234, 242, 250}

TableOps ==
    {0, 6, 14, 22, 30, 38, 46, 62} \cup (128..135) \cup {4, 5, 12, 13, 61, 53}
    \cup {1, 17, 33, 49, 195, 205, 201} \cup JccOps \cup PushPairOps
    \cup PopPairOps \cup {211, 219}

\* the cycle count the 8080 opcode table prescribes for an opcode of
\* TableOps
TableCycles(op) ==
    CASE op = 0 -> 4                                    \* NOP
      [] op \in {6, 14, 22, 30, 38, 46, 62} -> 7        \* MVI r
      [] op = 134 -> 7                                  \* ADD M
      [] op \in 128..135 -> 4                           \* ADD r
      [] op \in {4, 5, 12, 13, 61} -> 5                 \* INR r, DCR r
      [] op = 53 -> 10                                  \* DCR M
      [] op \in {1, 17, 33, 49} -> 10                   \* LXI
      [] op \in JccOps \cup {195} -> 10                 \* Jcc, JMP
      [] op = 205 -> 17                                 \* CALL
      [] op = 201 -> 10                                 \* RET
      [] op \in PushPairOps -> 11                       \* PUSH
      [] op \in PopPairOps -> 10                        \* POP
      [] OTHER -> 10                                    \* IN, OUT

\* C11: every executed instruction returns the cycle count the opcode
\* table prescribes for its opcode, the same for every register form
\* (DCR A costs 5 like DCR B)
C11_CycleTable ==
    Ran(TableOps) => last.cycles = TableCycles(last.opcode)

\* the condition a conditional jump tests, from the flags f
JccCond(op, f) ==
    CASE op = 194 -> ~f.zero                            \* NZ
      [] op = 202 -> f.zero                             \* Z
      [] op = 210 -> ~f.carry                           \* NC
      [] op = 218 -> f.carry                            \* C
      [] op = 226 -> ~f.even_parity                     \* PO
      [] op = 234 -> f.even_parity                      \* PE
      [] op = 242 -> ~f.sign_negative                   \* P
      [] op = 250 -> f.sign_negative                    \* M
      [] OTHER -> TRUE                                  \* JMP

\* the 16-bit operand of the instruction at s.pc
Operand16(s) == Mem(s.memory, s.pc + 1) + 256 * Mem(s.memory, s.pc + 2)

\* C12: a conditional jump whose condition holds, and JMP always, sets PC
\* to its operand a16; a conditional jump whose condition does not hold
\* sets PC to PC+3; no register, flag, SP or memory byte changes
C12_ConditionalJump ==
    Ran(JccOps \cup {195})
        => /\ cpu.pc = IF JccCond(last.opcode, pre.cpu.flags)
                       THEN Operand16(pre.cpu) ELSE pre.cpu.pc + 3
           /\ [cpu EXCEPT !.pc = pre.cpu.pc] = pre.cpu
           /\ io = pre.io

\* JPE was taken with P = 1 and every other flag 0
C12_Witness ==
    /\ Ran({234})
    /\ pre.cpu.flags.even_parity /\ ~pre.cpu.flags.zero
    /\ pre.cpu.pc = 8
    /\ cpu.pc = 288

\* JPO fell through with P = 1
C12_WitnessNotTaken ==
    /\ Ran({226})
    /\ pre.cpu.flags.even_parity
    /\ cpu.pc = 11

RccOps == {200, 216}

\* the condition a conditional return tests, from the flags f
RccCond(op, f) == IF op = 200 THEN f.zero ELSE f.carry

\* C13: a conditional return whose condition holds pops PC from the stack,
\* adds 2 to SP and takes 11 cycles; otherwise PC advances by 1, SP and
\* memory are unchanged and it takes 5 cycles; RZ and RC alike
C13_ConditionalReturn ==
    Ran(RccOps)
        => IF RccCond(last.opcode, pre.cpu.flags)
           THEN /\ cpu.pc = Mem(pre.cpu.memory, pre.cpu.sp)
                            + 256 * Mem(pre.cpu.memory, pre.cpu.sp + 1)
                /\ cpu.sp = pre.cpu.sp + 2
                /\ last.cycles = 11
           ELSE /\ cpu.pc = pre.cpu.pc + 1
                /\ cpu.sp = pre.cpu.sp
                /\ cpu.memory = pre.cpu.memory
                /\ last.cycles = 5

\* the five flags are the bits 0, 2, 4, 6 and 7 of byte
FlagsAtBits(f, byte) ==
    /\ f.carry = (Bit(byte, 0) = 1)
    /\ f.even_parity = (Bit(byte, 2) = 1)
    /\ f.aux_carry = (Bit(byte, 4) = 1)
    /\ f.zero = (Bit(byte, 6) = 1)
    /\ f.sign_negative = (Bit(byte, 7) = 1)

\* C14: unpacking any byte (POP AF) and packing the result gives the byte
\* masked with 0b11010101, the flags being bits CY=0, P=2, AC=4, Z=6, S=7;
\* packing any five flags (PUSH AF) and unpacking the byte restores them
C14_PswRoundTrip ==
    /\ Ran({241})
        => LET byte == Mem(pre.cpu.memory, pre.cpu.sp)
           IN  /\ psw(cpu.flags) = BitAnd(byte, 213)
               /\ FlagsAtBits(cpu.flags, byte)
    /\ Ran({245})
        => LET byte == Mem(cpu.memory, cpu.sp)
           IN  /\ set_psw(byte) = pre.cpu.flags
               /\ FlagsAtBits(pre.cpu.flags, byte)
               /\ BitAnd(byte, 42) = 0

\* the byte 0xFF went through POP AF, PUSH AF, POP D, PUSH D, POP AF: E
\* holds the packed flags 0xD5 and the second unpacking set all five flags
C14_Witness ==
    /\ Ran({241})
    /\ pre.cpu.pc = 11
    /\ c(cpu) = 255
    /\ e(cpu) = 213
    /\ cpu.flags = pre.cpu.flags
    /\ psw(cpu.flags) = 213

\* the port an IN or OUT at s.pc names
PortOf(s) == Mem(s.memory, s.pc + 1)

\* C15: an OUT to port 4 with value v sets the low byte of the shift
\* register to its previous high byte and the high byte to v, and leaves
\* the shift amount alone; after the writes ..., v1, v2 the register is
\* (v2 << 8) | v1
C15_ShiftRegisterSlides ==
    /\ (Ran({211}) /\ PortOf(pre.cpu) = 4)
        => /\ lsb(io.shift_register) = msb(pre.io.shift_register)
           /\ msb(io.shift_register) = pre.cpu.a
           /\ io.shift_amount = pre.io.shift_amount
    /\ (rom \in SlideRoms /\ Ran({211}) /\ pre.cpu.pc = 10)
        => io.shift_register = 256 * rom[10] + rom[6]
    /\ (rom \in SlideRoms /\ Ran({211}) /\ pre.cpu.pc = 16)
        => io.shift_register = 256 * rom[16] + rom[10]

\* 0xAA then 0xBB were written to port 4 with shift amount 4: 0xBBAA
C15_Witness ==
    /\ Ran({211})
    /\ PortOf(pre.cpu) = 4
    /\ pre.io.shift_register = 170 * 256 + 187
    /\ pre.cpu.a = 187
    /\ io.shift_register = 48042
    /\ io.shift_amount = 4

\* C16: IN from port 3 returns (shift_register >> (8 - shift_amount)) &
\* 0xFF; reading an input port changes neither the shift register, the
\* shift amount nor the port bytes
C16_ShiftWindow ==
    /\ (Ran({219}) /\ PortOf(pre.cpu) = 3)
        => cpu.a = (pre.io.shift_register
                        \div Pow2(8 - pre.io.shift_amount)) % 256
    /\ Ran({219}) => io = pre.io

\* the register 0xBBAA was read with shift amount 4: 0xBA
C16_Witness ==
    /\ Ran({219})
    /\ PortOf(pre.cpu) = 3
    /\ pre.io.shift_register = 48042
    /\ pre.io.shift_amount = 4
    /\ cpu.a = 186

\* C17: OUT to port 3, 5 or 6 is accepted and changes no IO state; OUT to
\* a port outside {2,3,4,5,6} and IN from a port outside {1,2,3} are fatal
\* traps
C17_PortClassification ==
    /\ (Tried({211}) /\ PortOf(pre.cpu) \in {3, 5, 6})
        => (status = "Running" /\ io = pre.io)
    /\ (Tried({211}) /\ InBounds(pre.cpu.pc + 1)
            /\ PortOf(pre.cpu) \notin {2, 3, 4, 5, 6})
        => status = "BadPort"
    /\ (Tried({219}) /\ InBounds(pre.cpu.pc + 1)
            /\ PortOf(pre.cpu) \notin {1, 2, 3})
        => status = "BadPort"

\* 2^bit if the host reports key as down, else 0
Pressed(down, key, bit) == IF key \in down THEN Pow2(bit) ELSE 0

\* port1 after a snapshot: Coin, P2 Start, P1 Start, always-1, P1 Fire,
\* P1 Left, P1 Right in bits 0..6 (host keys C, W, Q, Space, A, D), bit 7
\* as in `before`
Port1After(before, down) ==
    Pressed(down, "C", 0) + Pressed(down, "W", 1) + Pressed(down, "Q", 2)
    + 8 + Pressed(down, "Space", 4) + Pressed(down, "A", 5)
    + Pressed(down, "D", 6) + BitAnd(before, 128)

\* port2 after a snapshot: P2 Fire, P2 Left, P2 Right in bits 4..6 (host
\* keys Enter, Left, Right), bits 0..3 and 7 as in `before`
Port2After(before, down) ==
    Pressed(down, "Enter", 4) + Pressed(down, "Left", 5)
    + Pressed(down, "Right", 6) + BitAnd(before, 143)

\* the last action ended a frame of invaders.rs: update_input was called
FrameEnded ==
    /\ last.op = "interrupt"
    /\ last.n = 2
    /\ last.trap = "none"
    /\ pos = "idle"
    /\ IsInvaders(io)

\* C18: after update_input(snapshot) the port1 bits 0,1,2,4,5,6 and the
\* port2 bits 4,5,6 equal the snapshot, port1 bit 3 is 1, every other port
\* bit keeps its value, and the next IN 1 / IN 2 returns the updated bytes
C18_InputUpdate ==
    /\ FrameEnded
        => /\ io.port1 = Port1After(pre.io.port1, window.down)
           /\ io.port2 = Port2After(pre.io.port2, window.down)
           /\ io.port0 = pre.io.port0
           /\ io.shift_register = pre.io.shift_register
           /\ io.shift_amount = pre.io.shift_amount
    /\ (window.updated /\ Ran({219}) /\ PortOf(pre.cpu) = 1)
        => cpu.a = Port1After(invaders_new.port1, window.down)
    /\ (window.updated /\ Ran({219}) /\ PortOf(pre.cpu) = 2)
        => cpu.a = Port2After(invaders_new.port2, window.down)

\* Coin, P1 Start, P1 Fire and P2 Left were down at the last update and
\* IN 1 returned 0b0001_1101
C18_Witness ==
    /\ window.updated
    /\ window.down = {"C", "Q", "Space", "Left"}
    /\ Ran({219})
    /\ PortOf(pre.cpu) = 1
    /\ cpu.a = 29
    /\ io.port2 = 32

\* C19: at construction the IO shim has shift register 0, shift amount 0
\* and port1 = 0b0001_0000; a port0, where there is one, has its three
\* high bits set
C19_IoConstruction ==
    last.op = "init"
        => /\ io.shift_register = 0
           /\ io.shift_amount = 0
           /\ io.port1 = 16
           /\ IsInvaders(io) => BitAnd(io.port0, 224) = 224

\* the seven 8-bit registers of s are 0, whichever way s holds them
RegistersZero(s) ==
    /\ s.a = 0
    /\ IF "bc" \in DOMAIN s
       THEN s.bc = 0 /\ s.de = 0 /\ s.hl = 0
       ELSE s.b = 0 /\ s.c = 0 /\ s.d = 0 /\ s.e = 0 /\ s.h = 0 /\ s.l = 0

\* C20: at construction the ROM bytes occupy memory from address 0, all
\* other memory is 0, the registers and the five flags are 0, SP = 0,
\* PC = 0, cycle_debt = 0 and interrupts are disabled; an interrupt raised
\* before any instruction has run is ignored
C20_MachineConstruction ==
    /\ last.op = "init"
        => /\ \A x \in (DOMAIN cpu.memory) \cup (0..(Len(rom) - 1)) :
                Mem(cpu.memory, x) = IF x < Len(rom) THEN rom[x + 1] ELSE 0
           /\ RegistersZero(cpu)
           /\ cpu.flags = FlagsZero
           /\ cpu.sp = 0
           /\ cpu.pc = 0
           /\ "cycle_debt" \in DOMAIN cpu => cpu.cycle_debt = 0
           /\ ~cpu.interrupts_enabled
    /\ (last.op = "interrupt" /\ steps = 0)
        => (cpu = pre.cpu /\ status = "Running")

\* the destination pixel <<x, y>> of bit `bit` of the VRAM byte i
PixelOf(i, bit) ==
    <<(8 * i + bit) \div 256, 255 - ((8 * i + bit) % 256)>>

\* the VRAM byte a destination pixel comes from
ByteOfPixel(px) == (256 * px[1] + (255 - px[2])) \div 8

\* the destination pixels of the bits that are 1 in the VRAM bytes lo..hi-1
ClaimedOn(memory, lo, hi) ==
    {PixelOf(ab[1] - VRAM_START, ab[2]) :
        ab \in {xb \in ((DOMAIN memory)
                            \cap ((VRAM_START + lo)..(VRAM_START + hi - 1)))
                        \X (0..7) :
                    Bit(memory[xb[1]], xb[2]) = 1}}

\* the pixels <<x, y>> that are ON in the window buffer of invaders.rs
WindowOn == {<<at % SCREEN_WIDTH, at \div SCREEN_WIDTH>> : at \in video.on}

C21_WitnessWindow ==
    /\ IsInvaders(io)
    /\ pos = "idle"
    /\ facade.frames = 1
    /\ (DOMAIN cpu.memory) \cap (VRAM_START..(MEMORY_SIZE - 1)) = {VRAM_START}
    /\ WindowOn = {<<0, 255>>}

\* the window after a frame shows memory[0x2400] = 0x01 as it was when the
\* top half was drawn, though the interrupt has since pushed the PC there
C21_WitnessStale ==
    /\ IsInvaders(io)
    /\ pos = "idle"
    /\ facade.frames = 1
    /\ cpu.memory[VRAM_START] = 41
    /\ WindowOn = {<<0, 255>>}

\* address a reduced to the 16 KiB array
Wrapped(a) == a % MEMORY_SIZE

\* C22: memory accesses are computed modulo 0x4000: no instruction or
\* interrupt fails because an address exceeds the array; the opcode fetched
\* at PC, the byte LDA loads, the word POP pops and the byte STA stores are
\* those at the address mod 0x4000
C22_AddressesModulo ==
    /\ status # "OutOfBounds"
    /\ last.op = "emulate" /\ last.trap = "none"
        => last.opcode = Mem(pre.cpu.memory, Wrapped(pre.cpu.pc))
    /\ Ran({58})
        => cpu.a = Mem(pre.cpu.memory, Wrapped(Operand16(pre.cpu)))
    /\ Ran(PopPairOps)
        => PoppedPair(cpu, last.opcode)
            = Mem(pre.cpu.memory, Wrapped(pre.cpu.sp))
              + 256 * Mem(pre.cpu.memory, Wrapped(pre.cpu.sp + 1))
    /\ (Ran({50}) /\ Wrapped(Operand16(pre.cpu)) >= ROM_END)
        => Mem(cpu.memory, Wrapped(Operand16(pre.cpu))) = pre.cpu.a

\* C23: the CPU, once constructed, starts Running; executing HLT ends it ("Halt") with every
\* register, flag, PC, SP, memory byte and the IO state as they were, and
\* from then on nothing changes: no instruction is fetched and no step or
\* interrupt has an effect
C23_HaltTerminal ==
    /\ []((last.op = "init" /\ new(rom).trap = "none") => status = "Running")
    /\ [](Tried({118})
            => (status = "Halt" /\ cpu = pre.cpu /\ io = pre.io))
    /\ [][status = "Halt"
            => (cpu' = cpu /\ io' = io /\ cycles' = cycles
                /\ status' = status /\ last' = last)]_vars

\* HLT was executed after other instructions had run
C23_Witness ==
    /\ Tried({118})
    /\ status = "Halt"
    /\ pre.cpu.pc > 0
    /\ cpu.a # 0

\* the opcode under test of the programs of OpRoms was fetched
AtOpcode == last.op = "emulate" /\ pre.cpu.pc = 16 /\ rom \in OpRoms

\* C24: fetching an opcode without an implementation ends the emulation
\* there: the byte is the one reported, PC, SP, registers, flags, memory
\* and the IO state are as before the fetch, and nothing executes later
C24_UnimplementedTerminates ==
    /\ [](Tried((0..255) \ Implemented)
            => /\ status # "Running"
               /\ last.opcode = Mem(pre.cpu.memory, pre.cpu.pc)
               /\ cpu = pre.cpu
               /\ io = pre.io
               /\ InBounds(pre.cpu.pc + 2) => status = "Unimplemented")
    /\ [][status = "Unimplemented"
            => (cpu' = cpu /\ io' = io /\ cycles' = cycles
                /\ status' = status /\ last' = last)]_vars

\* the opcode 0x08, which has no arm, was fetched after the set-up of the
\* registers and ended the emulation
C24_Witness ==
    /\ AtOpcode
    /\ last.opcode = 8
    /\ status = "Unimplemented"
    /\ cpu.a = 90
    /\ cpu.pc = 16

\* the implemented opcodes that write one half of a pair: INR, DCR, MVI and
\* MOV with that destination
WritesB == {4, 5, 6}
WritesC == {12, 13, 14, 79}
WritesD == {22, 86, 87}
WritesE == {30, 94, 95}
WritesH == {38, 102, 103}
WritesL == {46, 111}

\* a write of the high half leaves the low byte of the pair, and a write of
\* the low half leaves the high byte
OnlyHigh(before, after) == after % 256 = before % 256
OnlyLow(before, after) == after \div 256 = before \div 256

\* C25: each pair value is 256 * first register + second register; LXI
\* rp,d16 puts the high operand byte in the first and the low operand byte
\* in the second register; a write of one half changes only that byte of
\* the 16-bit value and no other pair
C25_PairAliasing ==
    /\ cpu.bc = 256 * b(cpu) + c(cpu) /\ b(cpu) \in 0..255 /\ c(cpu) \in 0..255
    /\ cpu.de = 256 * d(cpu) + e(cpu) /\ d(cpu) \in 0..255 /\ e(cpu) \in 0..255
    /\ cpu.hl = 256 * h(cpu) + l(cpu) /\ h(cpu) \in 0..255 /\ l(cpu) \in 0..255
    /\ Ran({1}) => /\ b(cpu) = Mem(pre.cpu.memory, pre.cpu.pc + 2)
                   /\ c(cpu) = Mem(pre.cpu.memory, pre.cpu.pc + 1)
                   /\ cpu.bc = Operand16(pre.cpu)
    /\ Ran({17}) => /\ d(cpu) = Mem(pre.cpu.memory, pre.cpu.pc + 2)
                    /\ e(cpu) = Mem(pre.cpu.memory, pre.cpu.pc + 1)
                    /\ cpu.de = Operand16(pre.cpu)
    /\ Ran({33}) => /\ h(cpu) = Mem(pre.cpu.memory, pre.cpu.pc + 2)
                    /\ l(cpu) = Mem(pre.cpu.memory, pre.cpu.pc + 1)
                    /\ cpu.hl = Operand16(pre.cpu)
    /\ Ran({6}) => b(cpu) = Mem(pre.cpu.memory, pre.cpu.pc + 1)
    /\ Ran({14}) => c(cpu) = Mem(pre.cpu.memory, pre.cpu.pc + 1)
    /\ Ran(WritesB) => /\ OnlyHigh(pre.cpu.bc, cpu.bc)
                       /\ cpu.de = pre.cpu.de /\ cpu.hl = pre.cpu.hl
    /\ Ran(WritesC) => /\ OnlyLow(pre.cpu.bc, cpu.bc)
                       /\ cpu.de = pre.cpu.de /\ cpu.hl = pre.cpu.hl
    /\ Ran(WritesD) => /\ OnlyHigh(pre.cpu.de, cpu.de)
                       /\ cpu.bc = pre.cpu.bc /\ cpu.hl = pre.cpu.hl
    /\ Ran(WritesE) => /\ OnlyLow(pre.cpu.de, cpu.de)
                       /\ cpu.bc = pre.cpu.bc /\ cpu.hl = pre.cpu.hl
    /\ Ran(WritesH) => /\ OnlyHigh(pre.cpu.hl, cpu.hl)
                       /\ cpu.bc = pre.cpu.bc /\ cpu.de = pre.cpu.de
    /\ Ran(WritesL) => /\ OnlyLow(pre.cpu.hl, cpu.hl)
                       /\ cpu.bc = pre.cpu.bc /\ cpu.de = pre.cpu.de

\* LXI B,0xABCD ran: B = 0xAB, C = 0xCD, BC = 0xABCD
C25_Witness ==
    /\ Ran({1})
    /\ rom = PairRom
    /\ b(cpu) = 171
    /\ c(cpu) = 205
    /\ cpu.bc = 43981

\* MVI B,0x12 ran on BC = 0xABCD: BC = 0x12CD
C25_WitnessHalf ==
    /\ Ran({6})
    /\ pre.cpu.bc = 43981
    /\ cpu.bc = 4813

\* the interrupts raised so far alternate 1, 2, 1, 2, ...
Alternates(raised) ==
    \A i \in 1..Len(raised) : raised[i] = IF i % 2 = 1 THEN 1 ELSE 2

\* the cycles a half frame has run when its loop is over
HalfFrameCycles ==
    (CYCLES_PER_FRAME \div 2)..(CYCLES_PER_FRAME \div 2 + MaxInstrCost - 1)

\* C26: a frame step of the facade of invaders.rs runs instructions for half
\* a frame of cycles, raises interrupt 1, runs the second half, raises
\* interrupt 2; the interrupts alternate 1, 2, 1, 2, ..., each is raised
\* between two instructions, and the frame counter goes up by one per step
C26_FrameSchedule ==
    /\ []((IsInvaders(io) /\ status = "Running")
            => /\ Alternates(facade.raised)
               /\ pos = "idle"
                    => /\ Len(facade.raised) = 2 * facade.frames
                       /\ facade.frames = steps
               /\ pos \in {"half", "half_screen"}
                    => /\ Len(facade.raised)
                            = 2 * facade.frames
                              + (IF facade.top_half THEN 0 ELSE 1)
                       /\ steps = facade.frames + 1
               /\ pos = "half" => spent_cycles < CYCLES_PER_FRAME \div 2 + MaxInstrCost
               /\ pos = "half_screen" => spent_cycles \in HalfFrameCycles
               /\ last.op = "interrupt"
                    => /\ last.cycles \in HalfFrameCycles
                       /\ last.n = facade.raised[Len(facade.raised)])
    /\ [][facade.raised' # facade.raised
            => /\ pos = "half_screen"
               /\ video.index = HALF_BYTES
               /\ spent_cycles \in HalfFrameCycles
               /\ facade.raised'
                    = Append(facade.raised,
                             IF facade.top_half THEN 1 ELSE 2)]_vars
    /\ [][facade.frames' # facade.frames
            => /\ facade.frames' = facade.frames + 1
               /\ ~facade.top_half
               /\ pos = "half_screen"
               /\ pos' = "idle"
               /\ Len(facade.raised') = 2 * facade.frames']_vars

\* two frame steps are over: interrupts 1, 2, 1, 2 were raised
C26_Witness ==
    /\ IsInvaders(io)
    /\ status = "Running"
    /\ pos = "idle"
    /\ steps = 2
    /\ facade.frames = 2
    /\ facade.raised = <<1, 2, 1, 2>>
    /\ facade.instructions > 0

\* C27: op_name has a mnemonic for each of the 256 opcode bytes, so the
\* line emulate prints for an instruction it executes never reads
\* "Unknown opcode: XX"
C27_DisassemblerCoversEmulate ==
    Ran(0..255) => ~op_name_unknown(pre.cpu, pre.cpu.pc)

\* MOV r,r': 0x40..0x7F without HLT; bits 5..3 name the destination and
\* bits 2..0 the source, in the order B, C, D, E, H, L, M, A
MovOps == (64..127) \ {118}

MovDst(opcode) == (opcode \div 8) % 8
MovSrc(opcode) == opcode % 8

\* the MOV fetched copied its source into its destination, changed no flag
\* and advanced PC by 1
MovCopied ==
    /\ last.trap = "none"
    /\ status = "Running"
    /\ RegOf(cpu, MovDst(last.opcode)) = RegOf(pre.cpu, MovSrc(last.opcode))
    /\ cpu.flags = pre.cpu.flags
    /\ cpu.pc = pre.cpu.pc + 1

\* C28: every MOV r,r' executes without trapping, copies the source into
\* the destination, changes no flag and advances PC by 1 (HL pointing into
\* RAM where M is involved)
C28_MovAllPairs ==
    (Tried(MovOps) /\ InRam(pre.cpu.hl)) => MovCopied

\* the MOV opcodes that have an arm in emulate do as C28 says
MovImplementedCopies ==
    (Tried(MovOps \cap Implemented) /\ InRam(pre.cpu.hl)) => MovCopied

NopOps == {0, 8, 16, 24, 32, 40, 48, 56}

\* the NOP fetched took 4 cycles, moved PC on by 1 and changed nothing else
NopDone ==
    /\ last.trap = "none"
    /\ status = "Running"
    /\ last.cost = 4
    /\ cpu = [pre.cpu EXCEPT !.pc = pre.cpu.pc + 1]
    /\ io = pre.io

\* C29: every NOP encoding executes as a 1-byte instruction of 4 cycles that
\* advances PC by 1 and changes no register, flag, SP, memory byte or the
\* interrupt-enable bit
C29_NopEncodings ==
    Tried(NopOps) => NopDone

\* the two NOP encodings that have an arm in emulate do as C29 says
NopImplementedDone ==
    Tried(NopOps \cap Implemented) => NopDone

\* ADD B, C, D, E, H, L, M, A and ADI d8
AddOps == (128..135) \cup {198}

\* the operand of the ADD or ADI just executed
AddOperand ==
    IF last.opcode = 198 THEN Mem(pre.cpu.memory, pre.cpu.pc + 1)
    ELSE RegOf(pre.cpu, last.opcode % 8)

\* C30: ADD and ADI set A to (a + b) mod 256, Z iff that is 0, S to its bit
\* 7 and CY iff a + b > 255; no other register and no memory byte changes
C30_Add ==
    Ran(AddOps)
        => LET sum == pre.cpu.a + AddOperand
           IN  /\ cpu.a = sum % 256
               /\ cpu.flags.zero = (sum % 256 = 0)
               /\ cpu.flags.sign_negative = ((sum % 256) \div 128 = 1)
               /\ cpu.flags.carry = (sum > 255)
               /\ cpu.bc = pre.cpu.bc
               /\ cpu.de = pre.cpu.de
               /\ cpu.hl = pre.cpu.hl
               /\ cpu.sp = pre.cpu.sp
               /\ cpu.memory = pre.cpu.memory
               /\ cpu.interrupts_enabled = pre.cpu.interrupts_enabled
               /\ io = pre.io
               /\ cpu.pc = pre.cpu.pc + (IF last.opcode = 198 THEN 2 ELSE 1)

\* A = 0xFF, ADI 1 ran: A = 0x00, Z = 1, S = 0, CY = 1
C30_Witness ==
    /\ Ran({198})
    /\ pre.cpu.a = 255
    /\ AddOperand = 1
    /\ cpu.a = 0
    /\ cpu.flags.zero
    /\ ~cpu.flags.sign_negative
    /\ cpu.flags.carry

\* ADD M ran with HL pointing at the byte 0x77: A = 0x5A + 0x77
C30_WitnessMemory ==
    /\ Ran({134})
    /\ pre.cpu.a = 90
    /\ AddOperand = 119
    /\ cpu.a = 209
    /\ cpu.flags.sign_negative
    /\ ~cpu.flags.carry

\* the operand of the CMP or CPI just executed
CmpOperand ==
    IF last.opcode = 254 THEN Mem(pre.cpu.memory, pre.cpu.pc + 1)
    ELSE RegOf(pre.cpu, last.opcode % 8)

\* C31: CMP and CPI set Z iff a = b, S to bit 7 of (a - b) mod 256 and CY
\* iff a < b, and leave A, every other register and memory unchanged
C31_Cmp ==
    Ran(CmpOps)
        => LET a == pre.cpu.a
               operand == CmpOperand
               diff == (a - operand + 256) % 256
           IN  /\ cpu.flags.zero = (a = operand)
               /\ cpu.flags.sign_negative = (diff \div 128 = 1)
               /\ cpu.flags.carry = (a < operand)
               /\ cpu.a = a
               /\ cpu.bc = pre.cpu.bc
               /\ cpu.de = pre.cpu.de
               /\ cpu.hl = pre.cpu.hl
               /\ cpu.sp = pre.cpu.sp
               /\ cpu.memory = pre.cpu.memory
               /\ io = pre.io

\* CPI 128 ran with A = 1: not equal, a borrow, and the difference 0x81
C31_Witness ==
    /\ Ran({254})
    /\ pre.cpu.a = 1
    /\ CmpOperand = 128
    /\ ~cpu.flags.zero
    /\ cpu.flags.sign_negative
    /\ cpu.flags.carry
    /\ cpu.a = 1

\* CMP B ran with A = B = 255: equal, no borrow
C31_WitnessEqual ==
    /\ Ran({184})
    /\ pre.cpu.a = 255
    /\ CmpOperand = 255
    /\ cpu.flags.zero
    /\ ~cpu.flags.carry

\* 1 for a set carry flag
CarryBit(s) == IF s.flags.carry THEN 1 ELSE 0

\* the flags of s with the carry flag left out
FlagsButCarry(s) == [s.flags EXCEPT !.carry = FALSE]

\* RAL ran as a rotate of the 9 bits CY, A to the left
RalRotated ==
    /\ cpu.a = (pre.cpu.a * 2 + CarryBit(pre.cpu)) % 256
    /\ cpu.flags.carry = (pre.cpu.a \div 128 = 1)
    /\ FlagsButCarry(cpu) = FlagsButCarry(pre.cpu)

\* RAR ran as a rotate of the 9 bits CY, A to the right
RarRotated ==
    /\ cpu.a = pre.cpu.a \div 2 + 128 * CarryBit(pre.cpu)
    /\ cpu.flags.carry = (pre.cpu.a % 2 = 1)
    /\ FlagsButCarry(cpu) = FlagsButCarry(pre.cpu)

\* C32: RAL and RAR rotate the 9-bit value formed by CY and A, and change
\* none of Z, S, P, AC
C32_RotateThroughCarry ==
    /\ Ran({23}) => RalRotated
    /\ Ran({31}) => RarRotated

\* RAL does as C32 says
RalRotates == Ran({23}) => RalRotated

\* DAD B, DAD D, DAD H
DadOps == {9, 25, 41}

\* the pair DAD adds to HL, in the State8080 of main.rs
MainDadOperand ==
    CASE last.opcode = 9 -> main_bc(pre.cpu)
      [] last.opcode = 25 -> main_de(pre.cpu)
      [] OTHER -> main_hl(pre.cpu)

\* C33: DAD rp sets HL to (HL + rp) mod 65536 and CY iff HL + rp > 0xFFFF,
\* and leaves Z, S, P, AC, the source pair and memory unchanged (stated on
\* the State8080 of main.rs, whose registers are separate bytes)
C33_DoubleAdd ==
    Tried(DadOps)
        => LET sum == main_hl(pre.cpu) + MainDadOperand
           IN  /\ last.trap = "none"
               /\ main_hl(cpu) = sum % 65536
               /\ cpu.flags.carry = (sum > 65535)
               /\ FlagsButCarry(cpu) = FlagsButCarry(pre.cpu)
               /\ main_bc(cpu) = main_bc(pre.cpu)
               /\ main_de(cpu) = main_de(pre.cpu)
               /\ cpu.memory = pre.cpu.memory

\* the pair DAD adds to HL, in the State8080 of i8080.rs
DadOperand ==
    CASE last.opcode = 9 -> pre.cpu.bc
      [] last.opcode = 25 -> pre.cpu.de
      [] OTHER -> pre.cpu.hl

\* State8080::dad of i8080.rs does as C33 says
DadAdds ==
    Tried(DadOps)
        => LET sum == pre.cpu.hl + DadOperand
           IN  /\ last.trap = "none"
               /\ cpu.hl = sum % 65536
               /\ cpu.flags.carry = (sum > 65535)
               /\ FlagsButCarry(cpu) = FlagsButCarry(pre.cpu)
               /\ cpu.bc = pre.cpu.bc
               /\ cpu.de = pre.cpu.de
               /\ cpu.memory = pre.cpu.memory

\* C34: cycle_debt is never negative and the budget of a step never
\* underflows: a step whose floor(2,000,000 * dt) is below the debt starts
\* with a budget >= 0, completes and leaves a debt >= 0
C34_NoBudgetUnderflow ==
    /\ cpu.cycle_debt >= 0
    /\ last.op = "step_begin"
        => /\ status = "Running"
           /\ step_cycles >= 0
    /\ last.op = "step_end" => budget(last.n) - pre.cpu.cycle_debt >= 0

\* a step whose floor(2,000,000 * dt) covers the debt starts with the
\* budget of the claim
BudgetWhenCovered ==
    (last.op = "step_begin" /\ budget(last.n) >= pre.cpu.cycle_debt)
        => /\ status = "Running"
           /\ step_cycles = budget(last.n) - pre.cpu.cycle_debt

\* C35: after any sequence of steps that did not trap, the total of the
\* facade is the sum of the cycles the steps returned, equals the sum of
\* floor(2,000,000 * dt_i) plus the cycle_debt left by the last step, and
\* never decreases
C35_CycleTotal ==
    /\ []((pos = "idle" /\ status = "Running" /\ ~IsInvaders(io))
            => cycles = budgets + cpu.cycle_debt)
    /\ [](last.op = "step_end" => cycles = pre.cycles + last.cycles)
    /\ [][cycles' >= cycles]_vars
    /\ [][cycles' # cycles
            => (pos = "stepping" /\ pos' = "idle"
                /\ cycles' = cycles + spent_cycles)]_vars

\* three steps of budgets 10, 100 and 10 are over, and the last left a debt
C35_Witness ==
    /\ last.op = "step_end"
    /\ status = "Running"
    /\ steps = 3
    /\ budgets = 120
    /\ cpu.cycle_debt > 0
    /\ cycles = 120 + cpu.cycle_debt

\* C36: interrupts_enabled is true iff the most recent of construction, DI
\* executed, EI executed and interrupt serviced is an EI; so an interrupt
\* is serviced only after an EI since the one before, and one raised
\* without an EI in between is ignored
C36_InterruptEnable ==
    /\ [](cpu.interrupts_enabled <=> ie_event = "EI")
    /\ [](Ran({251}) => (ie_event = "EI" /\ cpu.interrupts_enabled))
    /\ [](Ran({243}) => (ie_event = "DI" /\ ~cpu.interrupts_enabled))
    /\ []((last.op = "interrupt" /\ ~pre.cpu.interrupts_enabled)
            => cpu = pre.cpu)
    /\ []((last.op = "interrupt" /\ pre.cpu.interrupts_enabled
           /\ last.trap = "none")
            => (ie_event = "interrupt" /\ cpu.pc = (8 * last.n) % U16))
    /\ [][(last'.op = "interrupt" /\ cpu' # cpu) => ie_event = "EI"]_vars
    /\ [][cpu'.interrupts_enabled # cpu.interrupts_enabled
            => \/ last'.op = "interrupt"
               \/ (last'.op = "emulate" /\ last'.opcode \in {243, 251})]_vars

\* an interrupt was serviced, and the next one, raised before any EI, was
\* ignored
C36_Witness ==
    /\ last.op = "interrupt"
    /\ ie_event = "interrupt"
    /\ ~pre.cpu.interrupts_enabled
    /\ cpu = pre.cpu
    /\ Len(frames) > 0

\* an interrupt was serviced in the loop after its DI and its second EI
C36_WitnessAfterEi ==
    /\ last.op = "interrupt"
    /\ pre.cpu.interrupts_enabled
    /\ ie_event = "interrupt"
    /\ pre.cpu.pc \in 40..42

\* C37: the shift amount is always in 0..7: OUT to port 2 stores the low
\* three bits of A and nothing else writes it, so the shift count
\* 8 - shift_amount of IN 3 is in 1..8
C37_ShiftAmountRange ==
    /\ [](io.shift_amount \in 0..7 /\ 8 - io.shift_amount \in 1..8)
    /\ []((Ran({211}) /\ PortOf(pre.cpu) = 2)
            => io.shift_amount = pre.cpu.a % 8)
    /\ [][io'.shift_amount # io.shift_amount
            => (last'.op = "emulate" /\ last'.opcode = 211
                /\ PortOf(cpu) = 2)]_vars

\* OUT 2 ran with A = 0xFC: the amount is 4
C37_Witness ==
    /\ Ran({211})
    /\ PortOf(pre.cpu) = 2
    /\ pre.cpu.a = 252
    /\ io.shift_amount = 4

\* and so it did on the IO state of invaders.rs
C37_WitnessInvaders ==
    /\ C37_Witness
    /\ IsInvaders(io)

\* the decoder state of machine.rs after k more bits
RECURSIVE Walk(_, _)
Walk(v, k) == IF k = 0 THEN v ELSE Walk(put_bit(v, 0, 0), k - 1)

\* the pixels machine.rs puts for bit k of the byte it is at
PutBy(v, k) == put_bit([Walk(v, k) EXCEPT !.on = {}], 1, 0).on

\* the indices of the window buffer invaders.rs writes for bit k of the byte
\* it is at
WrittenBy(v, top_half, k) ==
    window_bit([v EXCEPT !.on = {}], top_half, Pow2(k), k).on

\* the place of a pixel in the sequence of all pixels, column after column,
\* each column from the bottom up
LinearOf(px) == 256 * px[1] + (255 - px[2])

\* C38: a full decode assigns each of the 224 x 256 pixels exactly once and
\* none outside the buffer: bit `bit` of byte i goes to the pixel number
\* 8 * i + bit of the sequence, which is inside the image, the last byte
\* ends the last column, and the two half decodes of invaders.rs write the
\* columns 0..111 and 112..223
C38_DecodeBijection ==
    /\ SCREEN_WIDTH * SCREEN_HEIGHT = 8 * 7168
    /\ 2 * HALF_BYTES = 7168
    /\ pos = "screen"
        => /\ status = "Running"
           /\ video.index \in 0..7168
           /\ LinearOf(<<video.x, video.y>>) = 8 * video.index
           /\ video.index < 7168
                => \A k \in 0..7 :
                    /\ PutBy(video, k) = {PixelOf(video.index, k)}
                    /\ \A px \in PutBy(video, k) :
                        /\ px[1] \in 0..(SCREEN_WIDTH - 1)
                        /\ px[2] \in 0..(SCREEN_HEIGHT - 1)
                        /\ LinearOf(px) = 8 * video.index + k
    /\ (~IsInvaders(io) /\ last.op = "screen")
        => /\ video.index = 7168
           /\ video.x = SCREEN_WIDTH
           /\ video.y = SCREEN_HEIGHT - 1
    /\ pos = "half_screen"
        => /\ status = "Running"
           /\ video.index \in 0..HALF_BYTES
           /\ video.index < HALF_BYTES
                => \A k \in 0..7 :
                    \A at \in WrittenBy(video, facade.top_half, k) :
                        LET px == <<at % SCREEN_WIDTH, at \div SCREEN_WIDTH>>
                            lo == IF facade.top_half THEN 0 ELSE HALF_BYTES
                        IN  /\ Cardinality(
                                 WrittenBy(video, facade.top_half, k)) = 1
                            /\ at \in 0..(SCREEN_WIDTH * SCREEN_HEIGHT - 1)
                            /\ px = PixelOf(lo + video.index, k)
                            /\ LinearOf(px) = 8 * (lo + video.index) + k
                            /\ facade.top_half <=> px[1] < SCREEN_WIDTH \div 2
    /\ (last.op = "interrupt" /\ IsInvaders(io) /\ status = "Running")
        => video.index = HALF_BYTES

\* the decoder of machine.rs is done: it went through all 7168 bytes and
\* stands behind the last column
C38_Witness ==
    /\ ~IsInvaders(io)
    /\ last.op = "screen"
    /\ video.index = 7168
    /\ video.x = SCREEN_WIDTH

\* the bottom-half decode of invaders.rs is at its last byte, which holds
\* the top pixels of column 223
C38_WitnessBottom ==
    /\ pos = "half_screen"
    /\ ~facade.top_half
    /\ video.index = HALF_BYTES - 1
    /\ WrittenBy(video, FALSE, 7) = {223}

\* INX B, INX D, INX H
InxOps == {3, 19, 35}

\* the pair INX names, in state s
InxPair(s) ==
    CASE last.opcode = 3 -> s.bc
      [] last.opcode = 19 -> s.de
      [] OTHER -> s.hl

\* INX ran and the pair is one more modulo 65536, the flags as before
InxWrapped ==
    /\ last.trap = "none"
    /\ InxPair(cpu) = (InxPair(pre.cpu) + 1) % 65536
    /\ cpu.flags = pre.cpu.flags

\* C39: 16-bit arithmetic wraps modulo 65536 and never traps: INX rp gives
\* (rp + 1) mod 65536 for every value and changes no flag; the PC advance,
\* the SP - 2 of PUSH and the SP + 2 of POP stay within 16 bits and raise
\* no overflow for every starting value
C39_Wrap16 ==
    /\ Tried(InxOps) => InxWrapped
    /\ Tried(0..255) => last.trap # "Overflow"
    /\ Ran(PushPairOps) => cpu.sp = (pre.cpu.sp + 65534) % 65536
    /\ Ran(PopPairOps) => cpu.sp = (pre.cpu.sp + 2) % 65536
    /\ cpu.pc \in 0..65535 /\ cpu.sp \in 0..65535

\* in a build without overflow checks INX does as C39 says
InxWrapsUnchecked == (Tried(InxOps) /\ ~oc) => InxWrapped

\* the match of emulate has an arm exactly for the opcodes of Implemented
ImplementedIsTheMatch ==
    (last.op = "emulate" /\ InBounds(pre.cpu.pc)
        /\ last.trap \in {"none", "Halt", "Unimplemented"})
        => (last.trap = "Unimplemented" <=> last.opcode \notin Implemented)

====
